---- MODULE Spec2Model ----
(***************************************************************************)
(* Recipe API: the relational store (recipes, tags, ingredients and the    *)
(* two many-to-many link tables) and the request handlers of               *)
(* app/recipe/views.py with the serializers of app/recipe/serializers.py.  *)
(* One action is one HTTP request handled from authentication to response. *)
(***************************************************************************)
EXTENDS Integers, Sequences, FiniteSets, TLC

\* ------------------------------------------------------------------------
\* Bounds of the model
\* ------------------------------------------------------------------------
\* rows the recipe, tag and ingredient tables may ever have received
MaxRecipes == 2
MaxTags == 2
MaxIngredients == 1
\* rows the user table may ever have received
MaxUsers == 3

\* ------------------------------------------------------------------------
\* Values
\* ------------------------------------------------------------------------
\* Authorization header of a request: absent (""), a stored key, an unknown key
Credentials == {"", "key1", "key2", "badkey"}
\* tag / ingredient names a payload may carry; "" is the blank name
Names == {"a", "b"}
Blank == ""

\* an optional value: <<>> is Python's None, <<v>> is the value v
None == <<>>
Some(v) == <<v>>

VARIABLES
    users,               \* core_user: id -> row
    user_id_seq,         \* last id the user table handed out
    tokens,              \* authtoken_token: key -> user id
    recipes,             \* core_recipe: id -> row
    recipe_id_seq,       \* last id the recipe table handed out
    tags,                \* core_tag: id -> [name, user]
    tag_id_seq,
    ingredients,         \* core_ingredient: id -> [name, user]
    ingredient_id_seq,
    recipe_tags,         \* core_recipe_tags: set of <<recipe id, tag id>>
    recipe_ingredients,  \* core_recipe_ingredients: set of <<recipe id, ingredient id>>
    transactions         \* worker -> the request it is handling, with its
                         \* writes that are not committed yet

vars == <<users, user_id_seq, tokens, recipes, recipe_id_seq, tags, tag_id_seq, ingredients,
          ingredient_id_seq, recipe_tags, recipe_ingredients, transactions>>

\* the store as one value, as a handler reads and writes it
Db == [users |-> users, user_id_seq |-> user_id_seq, tokens |-> tokens,
       recipes |-> recipes, recipe_id_seq |-> recipe_id_seq,
       tags |-> tags, tag_id_seq |-> tag_id_seq,
       ingredients |-> ingredients, ingredient_id_seq |-> ingredient_id_seq,
       recipe_tags |-> recipe_tags, recipe_ingredients |-> recipe_ingredients]

\* the store written
Write(d) ==
    /\ users' = d.users
    /\ user_id_seq' = d.user_id_seq
    /\ tokens' = d.tokens
    /\ recipes' = d.recipes
    /\ recipe_id_seq' = d.recipe_id_seq
    /\ tags' = d.tags
    /\ tag_id_seq' = d.tag_id_seq
    /\ ingredients' = d.ingredients
    /\ ingredient_id_seq' = d.ingredient_id_seq
    /\ recipe_tags' = d.recipe_tags
    /\ recipe_ingredients' = d.recipe_ingredients

\* a request handled from its first statement to its response with no other
\* request in between
Commit(d) == Write(d) /\ UNCHANGED transactions

\* a handler's outcome: the store it leaves, the status, the body, and whether
\* it ended by an uncaught exception
Outcome(d, status, data) == [db |-> d, status |-> status, data |-> data, raised |-> FALSE]
Raised(d) == [db |-> d, status |-> 500, data |-> None, raised |-> TRUE]

\* ------------------------------------------------------------------------
\* Authentication and permission (TokenAuthentication, IsAuthenticated)
\* ------------------------------------------------------------------------
\* (mutant) a request without a valid token served as the first user
AuthenticateFallback(cred, d) ==
    IF cred \in DOMAIN d.tokens THEN Some(d.tokens[cred]) ELSE Some(1)

\* the user of the request, or None when the request is rejected with 401:
\* no Authorization header, no token with the key, or an inactive user
Authenticate(cred, d) ==
    IF cred \in DOMAIN d.tokens /\ d.users[d.tokens[cred]].is_active
    THEN Some(d.tokens[cred])
    ELSE None

\* ------------------------------------------------------------------------
\* Serializers
\* ------------------------------------------------------------------------
\* (mutant) the owner declared as a serializer field
RecipeFieldsWithUser == {"title", "time_minutes", "price", "link", "description",
                         "tags", "ingredients", "user"}

\* fields of RecipeDetailSerializer a client can write; id is read-only
RecipeWritableFields == {"title", "time_minutes", "price", "link", "description",
                         "tags", "ingredients"}
RecipeRequiredFields == {"title", "time_minutes", "price"}
RecipeScalarFields == {"title", "time_minutes", "price", "link", "description"}

\* TagSerializer / IngredientSerializer on one item: name is required, not blank
AttrItemValid(item) == "name" \in DOMAIN item /\ item.name # Blank
AttrListValid(items) == \A i \in 1..Len(items) : AttrItemValid(items[i])
\* the validated item keeps the writable field only
AttrItemValidated(item) == [name |-> item.name]

\* the serializer field of a models.IntegerField: any integer the column holds
IntegerFieldValid(value) == value \in (-2147483647 - 1)..2147483647

\* RecipeSerializer.is_valid: required fields unless partial, time_minutes an
\* integer of the column's range, nested lists valid
RecipeIsValid(data, partial) ==
    /\ partial \/ RecipeRequiredFields \subseteq DOMAIN data
    /\ "time_minutes" \in DOMAIN data => IntegerFieldValid(data.time_minutes)
    /\ "tags" \in DOMAIN data => AttrListValid(data.tags)
    /\ "ingredients" \in DOMAIN data => AttrListValid(data.ingredients)

\* (mutant) scalar fields declared with defaults: an absent field is validated
\* to its default
RecipeValidatedDataDefaults(data) ==
    [f \in ((DOMAIN data \cap RecipeWritableFields) \cup RecipeScalarFields) |->
        IF f \notin DOMAIN data
        THEN (IF f \in {"time_minutes", "price"} THEN 0 ELSE "")
        ELSE IF f \in {"tags", "ingredients"}
        THEN [i \in 1..Len(data[f]) |-> AttrItemValidated(data[f][i])]
        ELSE data[f]]

\* RecipeSerializer.validated_data: the declared writable fields that are present
RecipeValidatedData(data) ==
    [f \in (DOMAIN data \cap RecipeWritableFields) |->
        IF f \in {"tags", "ingredients"}
        THEN [i \in 1..Len(data[f]) |-> AttrItemValidated(data[f][i])]
        ELSE data[f]]

\* dict.pop(key, default)
Pop(dict, key, default) == IF key \in DOMAIN dict THEN dict[key] ELSE default
Without(dict, keys) == [f \in (DOMAIN dict \ keys) |-> dict[f]]

\* (mutant) the lookup by name alone
LookupByName(table, auth_user, item) ==
    {t \in DOMAIN table : table[t].name = item.name}

\* the rows get_or_create(user=auth_user, **item) looks up
Lookup(table, auth_user, item) ==
    {t \in DOMAIN table : table[t].user = auth_user /\ table[t].name = item.name}

\* (mutant) create instead of get_or_create: a row is inserted for every item
CreatedAlways(found) == TRUE

\* get_or_create inserts a row when the lookup finds none
Created(found) == found = {}

\* Tag.objects.get_or_create(user=auth_user, **tag) then recipe.tags.add(tag_obj),
\* for each tag of the list in order
RECURSIVE GetOrCreateTags(_, _, _, _)
GetOrCreateTags(tag_list, recipe, auth_user, d) ==
    IF tag_list = <<>> THEN Outcome(d, 0, None)
    ELSE LET tag == Head(tag_list)
             found == Lookup(d.tags, auth_user, tag)
         IN IF Cardinality(found) > 1
            THEN Raised(d)          \* MultipleObjectsReturned
            ELSE LET created == Created(found)
                     tag_obj == IF created THEN d.tag_id_seq + 1
                                ELSE CHOOSE t \in found : TRUE
                     d1 == IF created
                           THEN [d EXCEPT
                                   !.tags = (tag_obj :> [name |-> tag.name,
                                                         user |-> auth_user]) @@ @,
                                   !.tag_id_seq = tag_obj]
                           ELSE d
                     d2 == [d1 EXCEPT !.recipe_tags = @ \cup {<<recipe, tag_obj>>}]
                 IN GetOrCreateTags(Tail(tag_list), recipe, auth_user, d2)

RECURSIVE GetOrCreateIngredients(_, _, _, _)
GetOrCreateIngredients(ingredient_list, recipe, auth_user, d) ==
    IF ingredient_list = <<>> THEN Outcome(d, 0, None)
    ELSE LET ingredient == Head(ingredient_list)
             found == Lookup(d.ingredients, auth_user, ingredient)
         IN IF Cardinality(found) > 1
            THEN Raised(d)          \* MultipleObjectsReturned
            ELSE LET created == Created(found)
                     ingredient_obj == IF created THEN d.ingredient_id_seq + 1
                                       ELSE CHOOSE i \in found : TRUE
                     d1 == IF created
                           THEN [d EXCEPT
                                   !.ingredients =
                                       (ingredient_obj :> [name |-> ingredient.name,
                                                           user |-> auth_user]) @@ @,
                                   !.ingredient_id_seq = ingredient_obj]
                           ELSE d
                     d2 == [d1 EXCEPT !.recipe_ingredients =
                                          @ \cup {<<recipe, ingredient_obj>>}]
                 IN GetOrCreateIngredients(Tail(ingredient_list), recipe, auth_user, d2)

\* column defaults of a new core_recipe row
RecipeDefaults == [title |-> "", time_minutes |-> 0, price |-> 0,
                   description |-> "", link |-> "", image |-> None]

\* setattr(instance, attr, value) for each item of the dict
SetAttrs(instance, dict) ==
    [f \in (DOMAIN instance \cup DOMAIN dict) |->
        IF f \in DOMAIN dict THEN dict[f] ELSE instance[f]]

\* RecipeSerializer.create, called by save(user=request.user): the keyword
\* arguments of save override the validated data
RecipeSerializerCreate(validated, auth_user, d) ==
    LET validated_data == SetAttrs(validated, [user |-> auth_user])
        tag_list == Pop(validated_data, "tags", <<>>)
        ingredient_list == Pop(validated_data, "ingredients", <<>>)
        fields == Without(validated_data, {"tags", "ingredients"})
        recipe == d.recipe_id_seq + 1
        d1 == [d EXCEPT !.recipes = (recipe :> SetAttrs(RecipeDefaults, fields)) @@ @,
                        !.recipe_id_seq = recipe]
        r1 == GetOrCreateTags(tag_list, recipe, auth_user, d1)
        r2 == GetOrCreateIngredients(ingredient_list, recipe, auth_user, r1.db)
    IN IF r1.raised THEN r1
       ELSE IF r2.raised THEN r2
       ELSE Outcome(r2.db, 201, Some(recipe))

\* dict.pop(key, default) where the default may be None
PopOptional(dict, key, default) == IF key \in DOMAIN dict THEN Some(dict[key]) ELSE default

\* (mutant) the default of create, an empty list, used in update
UpdatePopDefaultEmptyList == Some(<<>>)

\* the default of validated_data.pop('tags', None) in update
UpdatePopDefault == None

\* (mutant) `if tags:`, which an empty list fails
IsTruthy(value) == value # None /\ value[1] # <<>>

\* `tags is not None`
IsNotNone(value) == value # None

\* (mutant) no clear(): the links asked for are added to the ones there
ClearNothing(links, instance) == links

\* instance.tags.clear(): the rows of the link table of this recipe go
Clear(links, instance) == {l \in links : l[1] # instance}

\* RecipeSerializer.update
RecipeSerializerUpdate(instance, validated_data, auth_user, d) ==
    LET tag_list == PopOptional(validated_data, "tags", UpdatePopDefault)
        ingredient_list == PopOptional(validated_data, "ingredients", UpdatePopDefault)
        fields == Without(validated_data, {"tags", "ingredients"})
        r1 == IF IsNotNone(tag_list)
              THEN GetOrCreateTags(tag_list[1], instance, auth_user,
                       [d EXCEPT !.recipe_tags = Clear(@, instance)])
              ELSE Outcome(d, 0, None)
        r2 == IF IsNotNone(ingredient_list)
              THEN GetOrCreateIngredients(ingredient_list[1], instance, auth_user,
                       [r1.db EXCEPT !.recipe_ingredients = Clear(@, instance)])
              ELSE Outcome(r1.db, 0, None)
        \* setattr for the remaining items, then instance.save()
        d3 == [r2.db EXCEPT !.recipes[instance] = SetAttrs(@, fields)]
    IN IF r1.raised THEN r1
       ELSE IF r2.raised THEN r2
       ELSE Outcome(d3, 200, Some(instance))

\* ------------------------------------------------------------------------
\* Query strings.  A string is the sequence of its characters.
\* ------------------------------------------------------------------------
Digits == {"0", "1", "2", "3", "4", "5", "6", "7", "8", "9"}
DigitValue(c) ==
    CASE c = "0" -> 0 [] c = "1" -> 1 [] c = "2" -> 2 [] c = "3" -> 3 [] c = "4" -> 4
      [] c = "5" -> 5 [] c = "6" -> 6 [] c = "7" -> 7 [] c = "8" -> 8 [] c = "9" -> 9

\* str.split(','): the pieces between the commas, empty pieces included
RECURSIVE SplitComma(_, _)
SplitComma(str, piece) ==
    IF str = <<>> THEN <<piece>>
    ELSE IF Head(str) = "," THEN <<piece>> \o SplitComma(Tail(str), <<>>)
    ELSE SplitComma(Tail(str), Append(piece, Head(str)))

\* int(str_id) raises ValueError unless the string is a decimal numeral
IntRaises(str) == str = <<>> \/ \E i \in 1..Len(str) : str[i] \notin Digits
RECURSIVE IntOf(_)
IntOf(str) == IF str = <<>> THEN 0
              ELSE 10 * IntOf(SubSeq(str, 1, Len(str) - 1)) + DigitValue(str[Len(str)])

\* request.query_params.get(key): None when the parameter is absent
QueryGet(query, key) == IF key \in DOMAIN query THEN Some(query[key]) ELSE None

\* RecipeViewSet._params_to_ints
ParamsToInts(qs) ==
    IF qs = None \/ qs[1] = <<>> THEN [raised |-> FALSE, value |-> <<>>]
    ELSE LET pieces == SplitComma(qs[1], <<>>)
         IN IF \E i \in 1..Len(pieces) : IntRaises(pieces[i])
            THEN [raised |-> TRUE, value |-> <<>>]
            ELSE [raised |-> FALSE,
                  value |-> [i \in 1..Len(pieces) |-> IntOf(pieces[i])]]

Range(seq) == {seq[i] : i \in 1..Len(seq)}

\* ------------------------------------------------------------------------
\* Querysets.  A queryset is the multiset of the rows its SQL selects:
\* id -> number of times the row is selected (a join repeats a row).
\* ------------------------------------------------------------------------
RECURSIVE Repeat(_, _)
Repeat(v, n) == IF n = 0 THEN <<>> ELSE <<v>> \o Repeat(v, n - 1)

\* the rows of a multiset over ids 1..top, highest id first
RECURSIVE RowsDescId(_, _)
RowsDescId(rows, top) ==
    IF top = 0 THEN <<>>
    ELSE (IF top \in DOMAIN rows THEN Repeat(top, rows[top]) ELSE <<>>)
         \o RowsDescId(rows, top - 1)

\* (mutant) no .distinct(): a row comes once per matching link
DistinctOff(rows) == rows

\* .distinct()
Distinct(rows) == [r \in DOMAIN rows |-> IF rows[r] > 0 THEN 1 ELSE 0]

\* (mutant) a recipe must be linked to every id of the list
FilterRelatedIdAll(rows, links, ids) ==
    [r \in DOMAIN rows |->
        IF \A id \in Range(ids) : <<r, id>> \in links THEN rows[r] ELSE 0]

\* .filter(<relation>__id__in=ids): inner join with the link table
FilterRelatedIdIn(rows, links, ids) ==
    [r \in DOMAIN rows |->
        rows[r] * Cardinality({l \in links : l[1] = r /\ l[2] \in Range(ids)})]

\* (mutant) the filter on the owner left out
FilterUserOff(rows, table, user) == rows

\* .filter(user=user)
FilterUser(rows, table, user) ==
    [r \in DOMAIN rows |-> IF table[r].user = user THEN rows[r] ELSE 0]

\* (mutant) the class attribute queryset used as it is: Recipe.objects.all()
RecipeQuerysetAll(query, user, d) ==
    [raised |-> FALSE,
     rows |-> RowsDescId([r \in DOMAIN d.recipes |-> 1], d.recipe_id_seq)]

\* RecipeViewSet.get_queryset: the ids selected, in order; raised when a
\* parameter does not parse
RecipeGetQueryset(query, user, d) ==
    LET tag_ids == ParamsToInts(QueryGet(query, "tags"))
        ingredient_ids == ParamsToInts(QueryGet(query, "ingredients"))
        q0 == [r \in DOMAIN d.recipes |-> 1]
        q1 == IF tag_ids.value # <<>>
              THEN FilterRelatedIdIn(q0, d.recipe_tags, tag_ids.value) ELSE q0
        q2 == IF ingredient_ids.value # <<>>
              THEN FilterRelatedIdIn(q1, d.recipe_ingredients, ingredient_ids.value)
              ELSE q1
        q3 == FilterUser(q2, d.recipes, user)
    IN IF tag_ids.raised \/ ingredient_ids.raised
       THEN [raised |-> TRUE, rows |-> <<>>]
       ELSE [raised |-> FALSE, rows |-> RowsDescId(Distinct(q3), d.recipe_id_seq)]

\* bool(int(request.query_params.get('assigned_only', 0)))
AssignedOnly(query) ==
    LET param == QueryGet(query, "assigned_only")
    IN IF param = None THEN [raised |-> FALSE, value |-> FALSE]
       ELSE IF IntRaises(param[1]) THEN [raised |-> TRUE, value |-> FALSE]
       ELSE [raised |-> FALSE, value |-> IntOf(param[1]) # 0]

\* (mutant) assigned_only ignored
FilterRecipeNotNullOff(rows, links) == rows

\* .filter(recipe__isnull=False): inner join with the link table on the attribute
FilterRecipeNotNull(rows, links) ==
    [r \in DOMAIN rows |-> rows[r] * Cardinality({l \in links : l[2] = r})]

\* order of names, for ORDER BY name
NameRank(name) == CASE name = "a" -> 1 [] name = "b" -> 2 [] OTHER -> 0

\* (mutant) order_by('name'): ascending
RowsAscName(rows, table) ==
    LET ids == {r \in DOMAIN rows : rows[r] > 0}
    IN {s \in [1..Cardinality(ids) -> ids] :
          /\ \A r \in ids : \E i \in 1..Cardinality(ids) : s[i] = r
          /\ \A i \in 1..Cardinality(ids), j \in 1..Cardinality(ids) :
                i < j => NameRank(table[s[i]].name) <= NameRank(table[s[j]].name)}

\* the orders ORDER BY name DESC may return the rows in: rows of equal name
\* come in any order
RowsDescName(rows, table) ==
    LET n == Cardinality({r \in DOMAIN rows : rows[r] > 0})
        total == LET RECURSIVE Sum(_)
                     Sum(S) == IF S = {} THEN 0
                               ELSE LET r == CHOOSE x \in S : TRUE
                                    IN rows[r] + Sum(S \ {r})
                 IN Sum(DOMAIN rows)
    IN {s \in [1..total -> DOMAIN rows] :
          /\ \A r \in DOMAIN rows : Cardinality({i \in 1..total : s[i] = r}) = rows[r]
          /\ \A i \in 1..total, j \in 1..total :
                i < j => NameRank(table[s[i]].name) >= NameRank(table[s[j]].name)}

\* (mutant) the class attribute queryset used as it is: the rows of every user
AttrGetQuerysetAll(query, user, table, links) ==
    [raised |-> FALSE, rows |-> RowsDescName([r \in DOMAIN table |-> 1], table)]

\* BaseRecipeAttrViewSet.get_queryset over the tag or the ingredient table:
\* the set of row orders the query may return
AttrGetQueryset(query, user, table, links) ==
    LET assigned_only == AssignedOnly(query)
        q0 == FilterUser([r \in DOMAIN table |-> 1], table, user)
        q1 == IF assigned_only.value THEN FilterRecipeNotNull(q0, links) ELSE q0
    IN IF assigned_only.raised
       THEN [raised |-> TRUE, rows |-> {<<>>}]
       ELSE [raised |-> FALSE, rows |-> RowsDescName(Distinct(q1), table)]

\* GenericAPIView.get_object: the row of the queryset with this pk, or None (404)
GetObject(rows, pk) == IF pk \in Range(rows) THEN Some(pk) ELSE None

\* ------------------------------------------------------------------------
\* RecipeViewSet: each operator is one handler, from the request and the
\* store to the outcome
\* ------------------------------------------------------------------------
\* a detail route carries no query string: the filter parameters belong to
\* the list route
NoQuery == <<>>

RecipeViewList(cred, query, d) ==
    LET user == Authenticate(cred, d)
    IN IF user = None THEN Outcome(d, 401, None)
       ELSE LET queryset == RecipeGetQueryset(query, user[1], d)
            IN IF queryset.raised THEN Raised(d)     \* ValueError of int()
               ELSE Outcome(d, 200, queryset.rows)

RecipeViewRetrieve(cred, pk, d) ==
    LET user == Authenticate(cred, d)
    IN IF user = None THEN Outcome(d, 401, None)
       ELSE LET recipe == GetObject(RecipeGetQueryset(NoQuery, user[1], d).rows, pk)
            IN IF recipe = None THEN Outcome(d, 404, None)
               ELSE Outcome(d, 200, recipe)

\* (mutant) the owner taken from the request body when it names one
PerformCreateUserFromData(request_user, data) ==
    IF "user" \in DOMAIN data THEN data.user ELSE request_user

\* RecipeViewSet.perform_create: serializer.save(user=self.request.user)
PerformCreateUser(request_user, data) == request_user

\* CreateModelMixin.create with RecipeViewSet.perform_create
RecipeViewCreate(cred, data, d) ==
    LET user == Authenticate(cred, d)
    IN IF user = None THEN Outcome(d, 401, None)
       ELSE IF ~RecipeIsValid(data, FALSE) THEN Outcome(d, 400, None)
       ELSE RecipeSerializerCreate(RecipeValidatedData(data),
                                   PerformCreateUser(user[1], data), d)

\* UpdateModelMixin.update (PUT) and partial_update (PATCH)
RecipeViewUpdate(cred, pk, data, partial, d) ==
    LET user == Authenticate(cred, d)
    IN IF user = None THEN Outcome(d, 401, None)
       ELSE LET recipe == GetObject(RecipeGetQueryset(NoQuery, user[1], d).rows, pk)
            IN IF recipe = None THEN Outcome(d, 404, None)
               ELSE IF ~RecipeIsValid(data, partial) THEN Outcome(d, 400, None)
               ELSE RecipeSerializerUpdate(recipe[1], RecipeValidatedData(data),
                                           user[1], d)

\* (mutant) the row stays: only its rows of the link tables go
RecipeViewDestroyKeepsRow(cred, pk, d) ==
    LET user == Authenticate(cred, d)
    IN IF user = None THEN Outcome(d, 401, None)
       ELSE LET recipe == GetObject(RecipeGetQueryset(NoQuery, user[1], d).rows, pk)
            IN IF recipe = None THEN Outcome(d, 404, None)
               ELSE Outcome(
                      [d EXCEPT
                         !.recipe_tags = {l \in @ : l[1] # pk},
                         !.recipe_ingredients = {l \in @ : l[1] # pk}],
                      204, None)

\* DestroyModelMixin.destroy: the row goes, and its rows of the link tables
RecipeViewDestroy(cred, pk, d) ==
    LET user == Authenticate(cred, d)
    IN IF user = None THEN Outcome(d, 401, None)
       ELSE LET recipe == GetObject(RecipeGetQueryset(NoQuery, user[1], d).rows, pk)
            IN IF recipe = None THEN Outcome(d, 404, None)
               ELSE Outcome(
                      [d EXCEPT
                         !.recipes = [r \in (DOMAIN @ \ {pk}) |-> @[r]],
                         !.recipe_tags = {l \in @ : l[1] # pk},
                         !.recipe_ingredients = {l \in @ : l[1] # pk}],
                      204, None)

\* core.models.recipe_image_file_path
RecipeImageFilePath(filename, uuid) ==
    [dir |-> "uploads/recipe", name |-> uuid, ext |-> filename.ext]

\* RecipeViewSet.upload_image with RecipeImageSerializer: image is required and
\* must be an image file
RecipeViewUploadImage(cred, pk, data, uuid, d) ==
    LET user == Authenticate(cred, d)
    IN IF user = None THEN Outcome(d, 401, None)
       ELSE LET recipe == GetObject(RecipeGetQueryset(NoQuery, user[1], d).rows, pk)
            IN IF recipe = None THEN Outcome(d, 404, None)
               ELSE IF ~("image" \in DOMAIN data /\ data.image.is_image)
               THEN Outcome(d, 400, None)
               ELSE Outcome(
                      [d EXCEPT !.recipes[pk].image =
                                    Some(RecipeImageFilePath(data.image, uuid))],
                      200, recipe)

\* ------------------------------------------------------------------------
\* BaseRecipeAttrViewSet, over the table and the link table of its subclass
\* ------------------------------------------------------------------------
\* ListModelMixin.list: the outcomes the query's row order allows
AttrViewList(cred, query, table, links, d) ==
    LET user == Authenticate(cred, d)
    IN IF user = None THEN {Outcome(d, 401, None)}
       ELSE LET queryset == AttrGetQueryset(query, user[1], table, links)
            IN IF queryset.raised THEN {Raised(d)}   \* ValueError of int()
               ELSE {Outcome(d, 200, rows) : rows \in queryset.rows}

\* get_object of a detail route
AttrGetObject(user, pk, table, links) ==
    LET queryset == AttrGetQueryset(NoQuery, user, table, links)
    IN GetObject(CHOOSE rows \in queryset.rows : TRUE, pk)

\* TagSerializer / IngredientSerializer.is_valid on a request body
AttrIsValid(data, partial) ==
    /\ partial \/ "name" \in DOMAIN data
    /\ "name" \in DOMAIN data => data.name # Blank

\* UpdateModelMixin.update / partial_update: status and the table it leaves
AttrViewUpdate(cred, pk, data, partial, table, links, d) ==
    LET user == Authenticate(cred, d)
    IN IF user = None THEN [status |-> 401, table |-> table]
       ELSE IF AttrGetObject(user[1], pk, table, links) = None
       THEN [status |-> 404, table |-> table]
       ELSE IF ~AttrIsValid(data, partial) THEN [status |-> 400, table |-> table]
       ELSE [status |-> 200,
             table |-> IF "name" \in DOMAIN data
                       THEN [table EXCEPT ![pk].name = data.name]
                       ELSE table]

\* (mutant) the recipes linked to the deleted row lose all their links of
\* this relation
AttrViewDestroyAllLinks(cred, pk, table, links, d) ==
    LET user == Authenticate(cred, d)
    IN IF user = None THEN [status |-> 401, table |-> table, links |-> links]
       ELSE IF AttrGetObject(user[1], pk, table, links) = None
       THEN [status |-> 404, table |-> table, links |-> links]
       ELSE [status |-> 204,
             table |-> [r \in (DOMAIN table \ {pk}) |-> table[r]],
             links |-> {l \in links : <<l[1], pk>> \notin links}]

\* DestroyModelMixin.destroy: status, the table and the link table it leaves
AttrViewDestroy(cred, pk, table, links, d) ==
    LET user == Authenticate(cred, d)
    IN IF user = None THEN [status |-> 401, table |-> table, links |-> links]
       ELSE IF AttrGetObject(user[1], pk, table, links) = None
       THEN [status |-> 404, table |-> table, links |-> links]
       ELSE [status |-> 204,
             table |-> [r \in (DOMAIN table \ {pk}) |-> table[r]],
             links |-> {l \in links : l[2] # pk}]

\* TagViewSet
TagViewList(cred, query, d) == AttrViewList(cred, query, d.tags, d.recipe_tags, d)
TagViewUpdate(cred, pk, data, partial, d) ==
    LET res == AttrViewUpdate(cred, pk, data, partial, d.tags, d.recipe_tags, d)
    IN Outcome([d EXCEPT !.tags = res.table], res.status, None)
TagViewDestroy(cred, pk, d) ==
    LET res == AttrViewDestroy(cred, pk, d.tags, d.recipe_tags, d)
    IN Outcome([d EXCEPT !.tags = res.table, !.recipe_tags = res.links],
               res.status, None)

\* IngredientViewSet
IngredientViewList(cred, query, d) ==
    AttrViewList(cred, query, d.ingredients, d.recipe_ingredients, d)
IngredientViewUpdate(cred, pk, data, partial, d) ==
    LET res == AttrViewUpdate(cred, pk, data, partial, d.ingredients,
                              d.recipe_ingredients, d)
    IN Outcome([d EXCEPT !.ingredients = res.table], res.status, None)
IngredientViewDestroy(cred, pk, d) ==
    LET res == AttrViewDestroy(cred, pk, d.ingredients, d.recipe_ingredients, d)
    IN Outcome([d EXCEPT !.ingredients = res.table, !.recipe_ingredients = res.links],
               res.status, None)

\* ------------------------------------------------------------------------
\* User API: UserSerializer and ManageUserView (/api/user/me/)
\* ------------------------------------------------------------------------
\* AbstractBaseUser.set_password stores a salted hash of the raw password, and
\* check_password compares a raw password with it
MakePassword(raw) == [algorithm |-> "pbkdf2_sha256", hash_of |-> raw]

\* (mutant) every password checks
CheckPasswordAny(raw, encoded) == TRUE

CheckPassword(raw, encoded) == encoded = MakePassword(raw)

\* An email is the sequence of its characters.
\* str.lower(), on the letters the emails of the model are written with
LowerChar(c) ==
    CASE c = "A" -> "a" [] c = "C" -> "c" [] c = "N" -> "n" [] c = "X" -> "x"
      [] OTHER -> c
Lower(str) == [i \in 1..Len(str) |-> LowerChar(str[i])]
AtPositions(str) == {i \in 1..Len(str) : str[i] = "@"}
Last(S) == CHOOSE x \in S : \A y \in S : y <= x

\* BaseUserManager.normalize_email: email.rsplit('@', 1), the domain part
\* lowercased; an email without '@' is left as it is
NormalizeEmail(email) ==
    IF AtPositions(email) = {} THEN email
    ELSE LET at == Last(AtPositions(email))
         IN SubSeq(email, 1, at) \o Lower(SubSeq(email, at + 1, Len(email)))

\* EmailField: one '@' after a user part, then a domain of labels joined by
\* dots
EmailFieldValid(email) ==
    /\ Cardinality(AtPositions(email)) = 1
    /\ LET at == Last(AtPositions(email))
           domain == SubSeq(email, at + 1, Len(email))
       IN /\ at > 1
          /\ Len(domain) >= 3
          /\ domain[1] # "." /\ domain[Len(domain)] # "."
          /\ \E i \in 2..(Len(domain) - 1) : domain[i] = "."

UserWritableFields == {"email", "password", "name"}
PasswordMinLength == 5

\* (mutant) min_length left out: the password is only required not blank
PasswordNotBlank(password) == password # <<>>

\* the password field: CharField with min_length
PasswordValid(password) == Len(password) >= PasswordMinLength

\* (mutant) the email field without its UniqueValidator
UserIsValidNotUnique(data, partial, instance, d) ==
    /\ partial \/ UserWritableFields \subseteq DOMAIN data
    /\ "email" \in DOMAIN data => EmailFieldValid(data.email)
    /\ "password" \in DOMAIN data => PasswordValid(data.password)
    /\ "name" \in DOMAIN data => data.name # Blank

\* UserSerializer.is_valid: fields required unless partial, the email well
\* formed and not the email of another user (UniqueValidator, exact match), the
\* password of 5 characters or more, the name not blank
UserIsValid(data, partial, instance, d) ==
    /\ partial \/ UserWritableFields \subseteq DOMAIN data
    /\ "email" \in DOMAIN data =>
          /\ EmailFieldValid(data.email)
          /\ \A u \in DOMAIN d.users :
                d.users[u].email = data.email => Some(u) = instance
    /\ "password" \in DOMAIN data => PasswordValid(data.password)
    /\ "name" \in DOMAIN data => data.name # Blank

\* the columns of a new core_user row
UserDefaults == [email |-> <<>>, password |-> <<>>, name |-> "",
                 is_active |-> TRUE, is_staff |-> FALSE, is_superuser |-> FALSE]

\* UserManager.create_user: the email normalized, the password hashed, the
\* row saved; the unique index on email refuses a second row of an email
CreateUser(email, password, extra_fields, d) ==
    LET user == d.user_id_seq + 1
        row == SetAttrs(SetAttrs(UserDefaults, extra_fields),
                        [email |-> NormalizeEmail(email),
                         password |-> MakePassword(password)])
    IN IF email = <<>> THEN Raised(d)        \* ValueError
       ELSE IF \E u \in DOMAIN d.users : d.users[u].email = row.email
       THEN Raised(d)                        \* IntegrityError
       ELSE Outcome([d EXCEPT !.users = (user :> row) @@ @, !.user_id_seq = user],
                    201, Some(user))

\* UserSerializer.create
UserSerializerCreate(validated_data, d) ==
    CreateUser(validated_data.email, validated_data.password,
               Without(validated_data, {"email", "password"}), d)

\* (mutant) the password popped and dropped: set_password is not called
UserSerializerUpdateKeepPassword(instance, validated_data, d) ==
    [d EXCEPT !.users[instance] = SetAttrs(@, Without(validated_data, {"password"}))]

\* UserSerializer.update: the password is popped, the other fields are set and
\* saved, then a password given is hashed and saved
UserSerializerUpdate(instance, validated_data, d) ==
    LET password == Pop(validated_data, "password", None)
        fields == Without(validated_data, {"password"})
        d1 == [d EXCEPT !.users[instance] = SetAttrs(@, fields)]
    IN IF password # None
       THEN [d1 EXCEPT !.users[instance].password = MakePassword(password)]
       ELSE d1

\* the body of a user response: password is write-only
UserRepresentation(user) == [email |-> user.email, name |-> user.name]

\* ManageUserView GET: get_object is the user of the request
ManageUserViewRetrieve(cred, d) ==
    LET user == Authenticate(cred, d)
    IN IF user = None THEN Outcome(d, 401, None)
       ELSE Outcome(d, 200, Some(UserRepresentation(d.users[user[1]])))

\* ManageUserView PUT / PATCH
ManageUserViewUpdate(cred, data, partial, d) ==
    LET user == Authenticate(cred, d)
    IN IF user = None THEN Outcome(d, 401, None)
       ELSE IF ~UserIsValid(data, partial, user, d) THEN Outcome(d, 400, None)
       ELSE LET validated_data ==
                    [f \in (DOMAIN data \cap UserWritableFields) |-> data[f]]
                d1 == UserSerializerUpdate(user[1], validated_data, d)
            IN Outcome(d1, 200, Some(UserRepresentation(d1.users[user[1]])))

\* CreateUserView POST: no authentication
CreateUserViewPost(data, d) ==
    IF ~UserIsValid(data, FALSE, None, d) THEN Outcome(d, 400, None)
    ELSE LET validated_data ==
                 [f \in (DOMAIN data \cap UserWritableFields) |-> data[f]]
             out == UserSerializerCreate(validated_data, d)
         IN IF out.raised THEN out
            ELSE Outcome(out.db, 201,
                         Some(UserRepresentation(out.db.users[out.data[1]])))

\* AuthTokenSerializer fields: the email well formed, the password required
\* and not blank
AuthTokenIsValid(data) ==
    /\ {"email", "password"} \subseteq DOMAIN data
    /\ EmailFieldValid(data.email)
    /\ data.password # <<>>

\* authenticate(username=email, password=password) with ModelBackend: the
\* user of this email, when the password checks and the user is active
BackendAuthenticate(email, password, d) ==
    LET found == {u \in DOMAIN d.users :
                    /\ d.users[u].email = email
                    /\ CheckPassword(password, d.users[u].password)
                    /\ d.users[u].is_active}
    IN IF found = {} THEN None ELSE Some(CHOOSE u \in found : TRUE)

\* the key generated for a new token
TokenKey(user) ==
    CASE user = 1 -> "key1" [] user = 2 -> "key2" [] user = 3 -> "key3"
      [] user = 4 -> "key4" [] OTHER -> "key5"

\* CreateTokenView POST (ObtainAuthToken.post): AuthTokenSerializer.validate,
\* then Token.objects.get_or_create(user=user)
CreateTokenViewPost(data, d) ==
    IF ~AuthTokenIsValid(data) THEN Outcome(d, 400, None)
    ELSE LET user == BackendAuthenticate(data.email, data.password, d)
         IN IF user = None THEN Outcome(d, 400, None)
            ELSE LET found == {k \in DOMAIN d.tokens : d.tokens[k] = user[1]}
                     key == IF found = {} THEN TokenKey(user[1])
                            ELSE CHOOSE k \in found : TRUE
                     d1 == IF found = {}
                           THEN [d EXCEPT !.tokens = (key :> user[1]) @@ @]
                           ELSE d
                 IN Outcome(d1, 200, Some([token |-> key]))

\* ------------------------------------------------------------------------
\* Requests the clients send
\* ------------------------------------------------------------------------
\* primary keys of a detail route: every id a table can hold, and one beyond
RecipePks == 1..(MaxRecipes + 1)
TagPks == 1..(MaxTags + 1)
IngredientPks == 1..(MaxIngredients + 1)

ItemA == [name |-> "a"]
ItemB == [name |-> "b"]
ItemBlank == [name |-> Blank]
AttrLists == {<<>>, <<ItemA>>, <<ItemB>>, <<ItemA, ItemB>>, <<ItemBlank>>}

\* JSON bodies of recipe create and update requests
ScalarParts == {<<>>, [title |-> "t1", time_minutes |-> 10, price |-> 5]}
RelationParts ==
    {<<>>} \cup {[tags |-> l] : l \in AttrLists}
           \cup {[ingredients |-> l] : l \in AttrLists}
           \cup {[tags |-> l, ingredients |-> m] :
                    l \in {<<ItemA>>, <<ItemB>>}, m \in {<<ItemA>>}}
OwnerParts == {[user |-> u] : u \in {1, 2}}
RecipeBodies ==
    {s @@ r : s \in ScalarParts, r \in RelationParts}
        \cup {s @@ o : s \in ScalarParts, o \in OwnerParts}

\* bodies of tag and ingredient update requests
AttrBodies == {<<>>, ItemA, ItemB, ItemBlank}

\* multipart bodies of upload-image requests: no file, a file that is no
\* image, an image
NotAnImage == [image |-> [ext |-> "", is_image |-> FALSE]]
JpegImage == [image |-> [ext |-> ".jpg", is_image |-> TRUE]]
ImageBodies == {<<>>, NotAnImage, JpegImage}
\* the uploads sent here are the rejected ones; the handlers are checked on
\* every body of ImageBodies
UploadBodies == {<<>>, NotAnImage}
Uuids == {"uuid4"}

\* bodies of profile update requests; the ones sent here keep the stored names
UserBodies == {<<>>, [name |-> "n1"], [name |-> Blank], [password |-> <<"p", "w">>]}

\* emails: the two registered ones, a new one, the new one and a registered
\* one with capitals in the domain, one that is no email
EmailA == <<"a", "@", "x", ".", "c">>
EmailB == <<"b", "@", "x", ".", "c">>
EmailN == <<"n", "@", "x", ".", "c">>
EmailNUpper == <<"n", "@", "X", ".", "C">>
EmailAUpper == <<"a", "@", "X", ".", "c">>
EmailBad == <<"n">>
\* passwords: two of 5 characters, one of 2, the blank one
Pass1 == <<"p", "a", "s", "s", "1">>
Word2 == <<"w", "o", "r", "d", "2">>
ShortPassword == <<"p", "w">>
BlankPassword == <<>>

\* bodies of registration requests
RegistrationBodies ==
    {[email |-> e, password |-> p, name |-> "n1"] :
        e \in {EmailN, EmailNUpper, EmailA, EmailAUpper, EmailBad},
        p \in {Pass1, Word2, ShortPassword, BlankPassword}}
    \cup {[email |-> EmailN, password |-> Pass1], [email |-> EmailN, name |-> "n1"],
          [password |-> Pass1, name |-> "n1"]}

\* bodies of token requests
TokenBodies ==
    {[email |-> e, password |-> p] :
        e \in {EmailA, EmailB, EmailN, EmailNUpper, EmailBad},
        p \in {Pass1, Word2, BlankPassword}}
    \cup {[email |-> EmailA], [password |-> Pass1]}

\* bodies of profile updates that change the email or the password
ProfileBodies ==
    {[email |-> e] : e \in {EmailA, EmailN, EmailNUpper, EmailBad}}
    \cup {[password |-> p] : p \in {Pass1, Word2, ShortPassword}}

\* credentials, with the keys of the tokens of users registered later
UserCredentials == Credentials \cup {"key3", "key4"}

\* query strings of the list routes
RecipeQueries ==
    {<<>>,
     [tags |-> <<>>],
     [tags |-> <<"1">>],
     [tags |-> <<"1", ",", "2">>],
     [tags |-> <<"x">>],
     [ingredients |-> <<"2">>],
     [ingredients |-> <<"1", ",">>],
     [tags |-> <<"2">>, ingredients |-> <<"1">>],
     [tags |-> <<"1", ",", "2">>, ingredients |-> <<"1", ",", "2">>]}
AttrQueries == {<<>>, [assigned_only |-> <<"1">>], [assigned_only |-> <<"0">>],
                [assigned_only |-> <<"x">>]}

\* ------------------------------------------------------------------------
\* The state machine
\* ------------------------------------------------------------------------
EmptyTable == <<>>

\* the processes that handle requests at the same time
Workers == {"w1", "w2"}
Idle == [pc |-> "idle"]

\* the accounts registered before the first request, each with its token
RegisteredUser(email) ==
    [email |-> email, password |-> MakePassword(Pass1),
     name |-> "n1", is_active |-> TRUE, is_staff |-> FALSE, is_superuser |-> FALSE]

Init ==
    /\ users = <<RegisteredUser(EmailA), RegisteredUser(EmailB)>>
    /\ user_id_seq = 2
    /\ tokens = [key \in {"key1", "key2"} |-> IF key = "key1" THEN 1 ELSE 2]
    /\ recipes = EmptyTable
    /\ recipe_id_seq = 0
    /\ tags = EmptyTable
    /\ tag_id_seq = 0
    /\ ingredients = EmptyTable
    /\ ingredient_id_seq = 0
    /\ recipe_tags = {}
    /\ recipe_ingredients = {}
    /\ transactions = [w \in Workers |-> Idle]

\* (mutant) autocommit: every statement of a request is committed by itself
AtomicRequestsOff == {FALSE}

\* whether a request runs inside one database transaction (ATOMIC_REQUESTS).
\* The settings are no part of these sources; each write request runs inside
\* its own transaction.
AtomicRequests == {TRUE}

\* the stores a request may leave: what the handler wrote stays, unless it
\* raised inside a request transaction, which is then rolled back
Stores(out) ==
    {IF out.raised /\ atomic THEN Db ELSE out.db : atomic \in AtomicRequests}

\* the ones within the bounds of the model
Answers(out) ==
    {d \in Stores(out) :
        /\ d.recipe_id_seq <= MaxRecipes
        /\ d.tag_id_seq <= MaxTags
        /\ d.ingredient_id_seq <= MaxIngredients
        /\ d.user_id_seq <= MaxUsers}

\* the bodies sent with a credential: a request that fails authentication is
\* answered before its body is read, and is sent with the empty body
BodiesWith(cred, bodies) == IF Authenticate(cred, Db) = None THEN {<<>>} ELSE bodies

RecipeList ==
    \E cred \in Credentials, query \in RecipeQueries :
        \E d \in Answers(RecipeViewList(cred, query, Db)) : Commit(d)

RecipeRetrieve ==
    \E cred \in Credentials, pk \in RecipePks :
        \E d \in Answers(RecipeViewRetrieve(cred, pk, Db)) : Commit(d)

RecipeCreate ==
    \E cred \in Credentials : \E data \in BodiesWith(cred, RecipeBodies) :
        \E d \in Answers(RecipeViewCreate(cred, data, Db)) : Commit(d)

RecipeUpdate ==
    \E cred \in Credentials, pk \in RecipePks :
      \E data \in BodiesWith(cred, RecipeBodies) :
        \E d \in Answers(RecipeViewUpdate(cred, pk, data, FALSE, Db)) : Commit(d)

RecipePartialUpdate ==
    \E cred \in Credentials, pk \in RecipePks :
      \E data \in BodiesWith(cred, RecipeBodies) :
        \E d \in Answers(RecipeViewUpdate(cred, pk, data, TRUE, Db)) : Commit(d)

RecipeDestroy ==
    \E cred \in Credentials, pk \in RecipePks :
        \E d \in Answers(RecipeViewDestroy(cred, pk, Db)) : Commit(d)

RecipeUploadImage ==
    \E cred \in Credentials, pk \in RecipePks, data \in UploadBodies, uuid \in Uuids :
        \E d \in Answers(RecipeViewUploadImage(cred, pk, data, uuid, Db)) : Commit(d)

TagList ==
    \E cred \in Credentials, query \in AttrQueries :
        \E out \in TagViewList(cred, query, Db) : \E d \in Answers(out) : Commit(d)

TagUpdate ==
    \E cred \in Credentials, pk \in TagPks, partial \in BOOLEAN :
      \E data \in BodiesWith(cred, AttrBodies) :
        \E d \in Answers(TagViewUpdate(cred, pk, data, partial, Db)) : Commit(d)

TagDestroy ==
    \E cred \in Credentials, pk \in TagPks :
        \E d \in Answers(TagViewDestroy(cred, pk, Db)) : Commit(d)

IngredientList ==
    \E cred \in Credentials, query \in AttrQueries :
        \E out \in IngredientViewList(cred, query, Db) :
            \E d \in Answers(out) : Commit(d)

IngredientUpdate ==
    \E cred \in Credentials, pk \in IngredientPks, partial \in BOOLEAN :
      \E data \in BodiesWith(cred, AttrBodies) :
        \E d \in Answers(IngredientViewUpdate(cred, pk, data, partial, Db)) : Commit(d)

IngredientDestroy ==
    \E cred \in Credentials, pk \in IngredientPks :
        \E d \in Answers(IngredientViewDestroy(cred, pk, Db)) : Commit(d)

UserMeRetrieve ==
    \E cred \in Credentials :
        \E d \in Answers(ManageUserViewRetrieve(cred, Db)) : Commit(d)

UserMeUpdate ==
    \E cred \in Credentials, data \in UserBodies, partial \in BOOLEAN :
        \E d \in Answers(ManageUserViewUpdate(cred, data, partial, Db)) : Commit(d)

Next ==
    \/ UserMeRetrieve
    \/ UserMeUpdate
    \/ RecipeList
    \/ RecipeRetrieve
    \/ RecipeCreate
    \/ RecipeUpdate
    \/ RecipePartialUpdate
    \/ RecipeDestroy
    \/ RecipeUploadImage
    \/ TagList
    \/ TagUpdate
    \/ TagDestroy
    \/ IngredientList
    \/ IngredientUpdate
    \/ IngredientDestroy

Spec == Init /\ [][Next]_vars

\* The scalar fields of recipes alone: create, update and delete with bodies
\* that carry no tags and no ingredients and differ in time_minutes and title.
ScalarBodies ==
    {[title |-> "t1", time_minutes |-> t, price |-> 5] : t \in {-5, 0, 10}}
    \cup {[time_minutes |-> t] : t \in {-5, 0, 10}}
    \cup {[title |-> "t2"]}

RecipeCreateScalars ==
    \E cred \in Credentials : \E data \in BodiesWith(cred, ScalarBodies) :
        \E d \in Answers(RecipeViewCreate(cred, data, Db)) : Commit(d)

RecipeUpdateScalars ==
    \E cred \in Credentials, pk \in RecipePks, partial \in BOOLEAN :
      \E data \in BodiesWith(cred, ScalarBodies) :
        \E d \in Answers(RecipeViewUpdate(cred, pk, data, partial, Db)) : Commit(d)

ScalarNext ==
    \/ RecipeCreateScalars
    \/ RecipeUpdateScalars
    \/ RecipeDestroy

ScalarSpec == Init /\ [][ScalarNext]_vars

\* ------------------------------------------------------------------------
\* Recipe requests handled at the same time.  Each worker runs one request as
\* a transaction, one statement at a time: a statement reads the committed
\* rows and the transaction's own writes, and the writes reach the store when
\* the transaction commits.  Ids come from sequences, which are advanced for
\* all at once.  A row lock can delay a statement, it does not change what
\* the statement reads, and is left out.
\* ------------------------------------------------------------------------
NoWrites == [recipes |-> <<>>, tags |-> <<>>, ingredients |-> <<>>,
             deleted_tags |-> {}, added_tags |-> {},
             deleted_ingredients |-> {}, added_ingredients |-> {}]

\* the store a transaction reads: the committed rows with its own writes
View(writes, d) ==
    [d EXCEPT
       !.recipes = writes.recipes @@ @,
       !.tags = writes.tags @@ @,
       !.ingredients = writes.ingredients @@ @,
       !.recipe_tags = (@ \ writes.deleted_tags) \cup writes.added_tags,
       !.recipe_ingredients =
           (@ \ writes.deleted_ingredients) \cup writes.added_ingredients]

\* the rows of a table a statement inserted or changed
RowsWritten(after, before) ==
    [r \in {x \in DOMAIN after : x \notin DOMAIN before \/ after[x] # before[x]} |->
        after[r]]

\* the writes of a transaction after a statement took what it reads from
\* `before` to `after`
WritesAfter(writes, before, after) ==
    [recipes |-> RowsWritten(after.recipes, before.recipes) @@ writes.recipes,
     tags |-> RowsWritten(after.tags, before.tags) @@ writes.tags,
     ingredients |->
         RowsWritten(after.ingredients, before.ingredients) @@ writes.ingredients,
     deleted_tags |->
         writes.deleted_tags \cup (before.recipe_tags \ after.recipe_tags),
     added_tags |->
         (writes.added_tags \ (before.recipe_tags \ after.recipe_tags))
             \cup (after.recipe_tags \ before.recipe_tags),
     deleted_ingredients |->
         writes.deleted_ingredients
             \cup (before.recipe_ingredients \ after.recipe_ingredients),
     added_ingredients |->
         (writes.added_ingredients
              \ (before.recipe_ingredients \ after.recipe_ingredients))
             \cup (after.recipe_ingredients \ before.recipe_ingredients)]

\* the statements of _get_or_create_tags / _get_or_create_ingredients: one
\* get_or_create and add per item
GetOrCreateSteps(relation, items) ==
    [i \in 1..Len(items) |->
        [op |-> "get_or_create", relation |-> relation, item |-> items[i]]]

\* the statements of RecipeSerializer.update, in order
UpdateSteps(validated_data) ==
    LET tag_list == PopOptional(validated_data, "tags", UpdatePopDefault)
        ingredient_list == PopOptional(validated_data, "ingredients", UpdatePopDefault)
    IN (IF IsNotNone(tag_list)
        THEN <<[op |-> "clear", relation |-> "tags"]>>
                 \o GetOrCreateSteps("tags", tag_list[1])
        ELSE <<>>)
       \o (IF IsNotNone(ingredient_list)
           THEN <<[op |-> "clear", relation |-> "ingredients"]>>
                    \o GetOrCreateSteps("ingredients", ingredient_list[1])
           ELSE <<>>)
       \o <<[op |-> "save"]>>

\* the statements of RecipeSerializer.create after Recipe.objects.create
CreateSteps(validated_data) ==
    GetOrCreateSteps("tags", Pop(validated_data, "tags", <<>>))
        \o GetOrCreateSteps("ingredients", Pop(validated_data, "ingredients", <<>>))
        \o <<[op |-> "return"]>>

\* one statement of the transaction t, run on the store it reads
RunStep(step, t, view) ==
    CASE step.op = "clear" ->
           Outcome(IF step.relation = "tags"
                   THEN [view EXCEPT !.recipe_tags = Clear(@, t.instance)]
                   ELSE [view EXCEPT !.recipe_ingredients = Clear(@, t.instance)],
                   0, None)
      [] step.op = "get_or_create" ->
           IF step.relation = "tags"
           THEN GetOrCreateTags(<<step.item>>, t.instance, t.user, view)
           ELSE GetOrCreateIngredients(<<step.item>>, t.instance, t.user, view)
      [] step.op = "save" ->
           \* setattr on the instance as get_object loaded it, then save()
           Outcome([view EXCEPT !.recipes[t.instance] = SetAttrs(t.loaded, t.fields)],
                   200, Some(t.instance))
      [] step.op = "return" -> Outcome(view, 201, Some(t.instance))

\* (mutant) unique_together = ('user', 'name'): a second row of an owner and
\* a name is refused
RowAcceptedWhereUnique(table, row) ==
    ~\E x \in DOMAIN table : table[x].user = row.user /\ table[x].name = row.name

\* Tag and Ingredient declare no constraint over (user, name): the table takes
\* every row
RowAccepted(table, row) == TRUE

\* the last statement of a transaction and its commit: the writes reach the
\* store, unless the table refuses a row the transaction inserted
TxnCommitOutcome(t, d) ==
    LET view == View(t.writes, d)
        out == RunStep(Head(t.steps), t, view)
        writes == WritesAfter(t.writes, view, out.db)
    IN IF \/ \E x \in DOMAIN writes.tags : ~RowAccepted(d.tags, writes.tags[x])
          \/ \E x \in DOMAIN writes.ingredients :
                 ~RowAccepted(d.ingredients, writes.ingredients[x])
       THEN Raised(d)                        \* IntegrityError: rolled back
       ELSE Outcome(View(writes, d), out.status, out.data)

\* bodies of the requests handled at the same time
ConcurrentBodies ==
    {[tags |-> l] : l \in {<<ItemA>>, <<ItemB>>}}
    \cup {[ingredients |-> <<ItemA>>]}
ConcurrentCreateBodies ==
    {[title |-> "t1", time_minutes |-> 10, price |-> 5] @@ r :
        r \in {[tags |-> <<ItemA>>]}}

Running(w) == transactions[w].pc = "running"

\* a create request accepted: Recipe.objects.create(**validated_data).  A
\* request that is refused (401, 400) writes nothing and starts no transaction.
TxnBeginCreate ==
    \E w \in Workers, cred \in Credentials, data \in ConcurrentCreateBodies :
        LET user == Authenticate(cred, Db)
            validated_data ==
                SetAttrs(RecipeValidatedData(data),
                         [user |-> PerformCreateUser(user[1], data)])
            fields == Without(validated_data, {"tags", "ingredients"})
            recipe == recipe_id_seq + 1
        IN /\ ~Running(w)
           /\ user # None
           /\ RecipeIsValid(data, FALSE)
           /\ recipe <= MaxRecipes
           /\ recipe_id_seq' = recipe
           /\ transactions' =
                  [transactions EXCEPT ![w] =
                      [pc |-> "running", user |-> user[1], instance |-> recipe,
                       loaded |-> SetAttrs(RecipeDefaults, fields), fields |-> fields,
                       steps |-> CreateSteps(validated_data),
                       writes |-> [NoWrites EXCEPT !.recipes =
                                      (recipe :> SetAttrs(RecipeDefaults, fields))]]]
           /\ UNCHANGED <<users, user_id_seq, tokens, recipes, tags, tag_id_seq,
                          ingredients, ingredient_id_seq, recipe_tags,
                          recipe_ingredients>>

\* a PATCH accepted: get_object has loaded the recipe and the body is valid.
\* A request that is refused (401, 404, 400) writes nothing.
TxnBeginUpdate ==
    \E w \in Workers, cred \in Credentials, pk \in RecipePks,
       data \in ConcurrentBodies :
        LET user == Authenticate(cred, Db)
        IN /\ ~Running(w)
           /\ user # None
           /\ GetObject(RecipeGetQueryset(NoQuery, user[1], Db).rows, pk) # None
           /\ RecipeIsValid(data, TRUE)
           /\ transactions' =
                  [transactions EXCEPT ![w] =
                      [pc |-> "running", user |-> user[1], instance |-> pk,
                       loaded |-> recipes[pk],
                       fields |-> Without(RecipeValidatedData(data),
                                          {"tags", "ingredients"}),
                       steps |-> UpdateSteps(RecipeValidatedData(data)),
                       writes |-> NoWrites]]
           /\ UNCHANGED <<users, user_id_seq, tokens, recipes, recipe_id_seq, tags,
                          tag_id_seq, ingredients, ingredient_id_seq, recipe_tags,
                          recipe_ingredients>>

\* the next statement of a transaction that is not its last: clear, or
\* get_or_create and add.  An exception rolls the transaction back.
TxnStatement ==
    \E w \in Workers :
        /\ Running(w)
        /\ Head(transactions[w].steps).op \in {"clear", "get_or_create"}
        /\ LET t == transactions[w]
               view == View(t.writes, Db)
               out == RunStep(Head(t.steps), t, view)
           IN IF out.raised
              THEN /\ transactions' = [transactions EXCEPT ![w] = Idle]
                   /\ UNCHANGED <<tag_id_seq, ingredient_id_seq>>
              ELSE /\ out.db.tag_id_seq <= MaxTags
                   /\ out.db.ingredient_id_seq <= MaxIngredients
                   /\ tag_id_seq' = out.db.tag_id_seq
                   /\ ingredient_id_seq' = out.db.ingredient_id_seq
                   /\ transactions' =
                          [transactions EXCEPT ![w] =
                              [t EXCEPT !.steps = Tail(@),
                                        !.writes = WritesAfter(@, view, out.db)]]
        /\ UNCHANGED <<users, user_id_seq, tokens, recipes, recipe_id_seq, tags,
                       ingredients, recipe_tags, recipe_ingredients>>

\* the last statement of a transaction, and its commit
TxnCommit ==
    \E w \in Workers :
        /\ Running(w)
        /\ Head(transactions[w].steps).op \in {"save", "return"}
        /\ Write(TxnCommitOutcome(transactions[w], Db).db)
        /\ transactions' = [transactions EXCEPT ![w] = Idle]

ConcurrentNext ==
    \/ TxnBeginCreate
    \/ TxnBeginUpdate
    \/ TxnStatement
    \/ TxnCommit

ConcurrentSpec == Init /\ [][ConcurrentNext]_vars

\* The user API alone: registration, token, profile.  These requests read and
\* write the user and token tables only.
UserCreate ==
    \E data \in RegistrationBodies :
        \E d \in Answers(CreateUserViewPost(data, Db)) : Commit(d)

UserToken ==
    \E data \in TokenBodies :
        \E d \in Answers(CreateTokenViewPost(data, Db)) : Commit(d)

UserMePatch ==
    \E cred \in UserCredentials, data \in ProfileBodies :
        \E d \in Answers(ManageUserViewUpdate(cred, data, TRUE, Db)) : Commit(d)

UserNext ==
    \/ UserCreate
    \/ UserToken
    \/ UserMePatch
    \/ UserMeRetrieve
    \/ UserMeUpdate

UserSpec == Init /\ [][UserNext]_vars

\* ------------------------------------------------------------------------
\* Properties.  A property of a request is stated over the handler applied
\* to the current store, for every request of the sets above.
\* ------------------------------------------------------------------------
\* the user a credential authenticates, where it authenticates one
Authenticated(cred) == Authenticate(cred, Db) # None
UserOf(cred) == Authenticate(cred, Db)[1]

\* the tags and the ingredients a recipe is linked to in a store
TagsOf(d, r) == {l[2] : l \in {x \in d.recipe_tags : x[1] = r}}
IngredientsOf(d, r) == {l[2] : l \in {x \in d.recipe_ingredients : x[1] = r}}

\* C1: the update endpoint (PUT or PATCH) never changes the owner of a recipe,
\* whatever the body carries, a `user` field naming another user included:
\* every recipe is still stored afterwards, with the owner it had.
C1_OwnerUnchangedByUpdate ==
    \A cred \in Credentials, pk \in RecipePks, data \in RecipeBodies,
       partial \in BOOLEAN :
        LET d == RecipeViewUpdate(cred, pk, data, partial, Db).db
        IN \A r \in DOMAIN recipes :
               r \in DOMAIN d.recipes /\ d.recipes[r].user = recipes[r].user

\* a recipe whose owner patches it, successfully, with another user's id
C1_Witness ==
    \E cred \in Credentials, pk \in DOMAIN recipes, u \in DOMAIN users :
        /\ Authenticated(cred) /\ recipes[pk].user = UserOf(cred) /\ u # UserOf(cred)
        /\ RecipeViewUpdate(cred, pk, [user |-> u], TRUE, Db).status = 200

\* C2: the recipe list answered to user u holds recipes of u only, with or
\* without filter parameters, and without parameters it holds all of them.
C2_ListOnlyOwnRecipes ==
    \A cred \in Credentials, query \in RecipeQueries :
        LET out == RecipeViewList(cred, query, Db)
        IN out.status = 200 =>
             /\ Authenticated(cred)
             /\ \A i \in 1..Len(out.data) :
                    /\ out.data[i] \in DOMAIN recipes
                    /\ recipes[out.data[i]].user = UserOf(cred)
             /\ query = NoQuery =>
                    Range(out.data) = {r \in DOMAIN recipes :
                                          recipes[r].user = UserOf(cred)}

\* both users own a recipe, and a user gets a non-empty list, filtered by tag
C2_Witness ==
    /\ \E r1 \in DOMAIN recipes, r2 \in DOMAIN recipes :
           recipes[r1].user # recipes[r2].user
    /\ \E cred \in Credentials, query \in RecipeQueries :
           /\ "tags" \in DOMAIN query
           /\ RecipeViewList(cred, query, Db).status = 200
           /\ RecipeViewList(cred, query, Db).data # <<>>

PrivilegedOutcomes(cred) ==
    {ManageUserViewRetrieve(cred, Db)}
    \cup {ManageUserViewUpdate(cred, data, partial, Db) :
            data \in UserBodies, partial \in BOOLEAN}
    \cup {RecipeViewList(cred, query, Db) : query \in RecipeQueries}
    \cup {RecipeViewCreate(cred, data, Db) : data \in RecipeBodies}
    \cup UNION {{RecipeViewRetrieve(cred, pk, Db), RecipeViewDestroy(cred, pk, Db)} :
                  pk \in RecipePks}
    \cup {RecipeViewUpdate(cred, pk, data, partial, Db) :
            pk \in RecipePks, data \in RecipeBodies, partial \in BOOLEAN}
    \cup {RecipeViewUploadImage(cred, pk, data, uuid, Db) :
            pk \in RecipePks, data \in ImageBodies, uuid \in Uuids}
    \cup UNION {TagViewList(cred, query, Db) : query \in AttrQueries}
    \cup UNION {IngredientViewList(cred, query, Db) : query \in AttrQueries}
    \cup {TagViewUpdate(cred, pk, data, partial, Db) :
            pk \in TagPks, data \in AttrBodies, partial \in BOOLEAN}
    \cup {IngredientViewUpdate(cred, pk, data, partial, Db) :
            pk \in IngredientPks, data \in AttrBodies, partial \in BOOLEAN}
    \cup {TagViewDestroy(cred, pk, Db) : pk \in TagPks}
    \cup {IngredientViewDestroy(cred, pk, Db) : pk \in IngredientPks}

\* C4: a request without a valid token (no header, or a key of no token) to a
\* privileged endpoint is answered 401 with no data and changes nothing.
C4_NoTokenIs401 ==
    \A cred \in Credentials :
        cred \notin DOMAIN tokens =>
            PrivilegedOutcomes(cred) = {Outcome(Db, 401, None)}

\* a store with a linked recipe that its owner could delete, patch or list,
\* and that a request without a token asks to delete
C4_Witness ==
    \E pk \in DOMAIN recipes, owner \in DOMAIN tokens :
        /\ TagsOf(Db, pk) # {}
        /\ RecipeViewDestroy(owner, pk, Db).status = 204
        /\ RecipeViewUpdate(owner, pk, [tags |-> <<>>], TRUE, Db).status = 200
        /\ RecipeViewDestroy("", pk, Db).status = 401
        /\ RecipeViewDestroy("badkey", pk, Db).status = 401

\* the names of a list of items
NamesOf(items) == {items[i].name : i \in 1..Len(items)}
\* the rows of a table a user owns under one of the names
RowsNamed(table, user, names) ==
    {t \in DOMAIN table : table[t].user = user /\ table[t].name \in names}

\* C5: a successful update (200) whose body omits `tags` leaves the tag links
\* and the tag rows as they were, and one that omits `ingredients` leaves the
\* ingredient links and rows as they were.
C5_OmittedRelationUntouched ==
    \A cred \in Credentials, pk \in RecipePks, data \in RecipeBodies,
       partial \in BOOLEAN :
        LET out == RecipeViewUpdate(cred, pk, data, partial, Db)
        IN out.status = 200 =>
             /\ "tags" \notin DOMAIN data =>
                    /\ TagsOf(out.db, pk) = TagsOf(Db, pk)
                    /\ out.db.recipe_tags = recipe_tags
                    /\ out.db.tags = tags
             /\ "ingredients" \notin DOMAIN data =>
                    /\ IngredientsOf(out.db, pk) = IngredientsOf(Db, pk)
                    /\ out.db.recipe_ingredients = recipe_ingredients
                    /\ out.db.ingredients = ingredients

\* a recipe with a tag, whose owner replaces its ingredients by a body without
\* `tags`: the ingredient links change
C5_Witness ==
    \E cred \in Credentials, pk \in DOMAIN recipes :
        LET out == RecipeViewUpdate(cred, pk, [ingredients |-> <<ItemB>>], TRUE, Db)
        IN /\ TagsOf(Db, pk) # {}
           /\ out.status = 200
           /\ IngredientsOf(out.db, pk) # IngredientsOf(Db, pk)

\* C6: a successful update whose body carries `tags: []` leaves the recipe with
\* no tag link, and one with `ingredients: []` with no ingredient link.
C6_EmptyListClears ==
    \A cred \in Credentials, pk \in RecipePks, data \in RecipeBodies,
       partial \in BOOLEAN :
        LET out == RecipeViewUpdate(cred, pk, data, partial, Db)
        IN out.status = 200 =>
             /\ ("tags" \in DOMAIN data /\ data.tags = <<>>) =>
                    TagsOf(out.db, pk) = {}
             /\ ("ingredients" \in DOMAIN data /\ data.ingredients = <<>>) =>
                    IngredientsOf(out.db, pk) = {}

\* a recipe with a tag and an ingredient, each cleared by its owner
C6_Witness ==
    \E cred \in Credentials, pk \in DOMAIN recipes :
        /\ TagsOf(Db, pk) # {} /\ IngredientsOf(Db, pk) # {}
        /\ RecipeViewUpdate(cred, pk, [tags |-> <<>>], TRUE, Db).status = 200
        /\ RecipeViewUpdate(cred, pk, [ingredients |-> <<>>], TRUE, Db).status = 200

\* C7: a successful update whose body carries a non-empty `tags` list leaves
\* the recipe linked to exactly the rows of the requester named in the list,
\* so to no row it was linked to whose name is not in the list; the same for
\* `ingredients`.
C7_NonEmptyListReplaces ==
    \A cred \in Credentials, pk \in RecipePks, data \in RecipeBodies,
       partial \in BOOLEAN :
        LET out == RecipeViewUpdate(cred, pk, data, partial, Db)
        IN out.status = 200 =>
             /\ ("tags" \in DOMAIN data /\ data.tags # <<>>) =>
                    /\ TagsOf(out.db, pk) =
                           RowsNamed(out.db.tags, UserOf(cred), NamesOf(data.tags))
                    /\ \A t \in TagsOf(Db, pk) :
                           tags[t].name \notin NamesOf(data.tags) =>
                               t \notin TagsOf(out.db, pk)
             /\ ("ingredients" \in DOMAIN data /\ data.ingredients # <<>>) =>
                    /\ IngredientsOf(out.db, pk) =
                           RowsNamed(out.db.ingredients, UserOf(cred),
                                     NamesOf(data.ingredients))
                    /\ \A i \in IngredientsOf(Db, pk) :
                           ingredients[i].name \notin NamesOf(data.ingredients) =>
                               i \notin IngredientsOf(out.db, pk)

\* a recipe linked to a tag named "a" whose owner sends `tags: [b]`: the link
\* to "a" goes and a link to "b" comes
C7_Witness ==
    \E cred \in Credentials, pk \in DOMAIN recipes :
        LET out == RecipeViewUpdate(cred, pk, [tags |-> <<ItemB>>], TRUE, Db)
        IN /\ \E t \in TagsOf(Db, pk) : tags[t].name = "a"
           /\ out.status = 200
           /\ \A t \in TagsOf(out.db, pk) : out.db.tags[t].name = "b"
           /\ TagsOf(out.db, pk) # {}

\* the rows a store has that another has not
NewRows(after, before) == DOMAIN after \ DOMAIN before

\* C8: a valid create by a known user, naming no row that user owns twice, is
\* answered 201.  A recipe created (201) with a `tags` list of n distinct
\* names, none of them a tag of the requester, gives exactly n new tag rows,
\* owned by the requester and named as the list, and links the new recipe to
\* exactly those; the rows there before stay.  The same for `ingredients`.
\* Created without the field, the recipe has no link of the kind and no row is
\* added.
C8_CreateWithNewNames ==
    \A cred \in Credentials, data \in RecipeBodies :
        LET out == RecipeViewCreate(cred, data, Db)
            new == out.data[1]
            u == UserOf(cred)
        IN /\ ( /\ Authenticated(cred) /\ RecipeIsValid(data, FALSE)
                /\ "tags" \in DOMAIN data =>
                       \A n \in NamesOf(data.tags) :
                           Cardinality(RowsNamed(tags, u, {n})) <= 1
                /\ "ingredients" \in DOMAIN data =>
                       \A n \in NamesOf(data.ingredients) :
                           Cardinality(RowsNamed(ingredients, u, {n})) <= 1 ) =>
                  out.status = 201
           /\ out.status = 201 =>
             /\ new \notin DOMAIN recipes /\ new \in DOMAIN out.db.recipes
             /\ "tags" \notin DOMAIN data =>
                    TagsOf(out.db, new) = {} /\ out.db.tags = tags
             /\ "ingredients" \notin DOMAIN data =>
                    IngredientsOf(out.db, new) = {} /\ out.db.ingredients = ingredients
             /\ ( /\ "tags" \in DOMAIN data
                  /\ Cardinality(NamesOf(data.tags)) = Len(data.tags)
                  /\ RowsNamed(tags, u, NamesOf(data.tags)) = {} ) =>
                    LET rows == NewRows(out.db.tags, tags)
                    IN /\ Cardinality(rows) = Len(data.tags)
                       /\ \A t \in rows : out.db.tags[t].user = u
                       /\ {out.db.tags[t].name : t \in rows} = NamesOf(data.tags)
                       /\ TagsOf(out.db, new) = rows
                       /\ \A t \in DOMAIN tags :
                              t \in DOMAIN out.db.tags /\ out.db.tags[t] = tags[t]
             /\ ( /\ "ingredients" \in DOMAIN data
                  /\ Cardinality(NamesOf(data.ingredients)) = Len(data.ingredients)
                  /\ RowsNamed(ingredients, u, NamesOf(data.ingredients)) = {} ) =>
                    LET rows == NewRows(out.db.ingredients, ingredients)
                    IN /\ Cardinality(rows) = Len(data.ingredients)
                       /\ \A i \in rows : out.db.ingredients[i].user = u
                       /\ {out.db.ingredients[i].name : i \in rows}
                              = NamesOf(data.ingredients)
                       /\ IngredientsOf(out.db, new) = rows
                       /\ \A i \in DOMAIN ingredients :
                              /\ i \in DOMAIN out.db.ingredients
                              /\ out.db.ingredients[i] = ingredients[i]

\* the other user owns tags "a" and "b" and an ingredient "a"; a user with no
\* tag and no ingredient creates recipes naming them
C8_Witness ==
    \E cred \in Credentials :
        /\ Authenticated(cred)
        /\ RowsNamed(tags, UserOf(cred), Names) = {}
        /\ RowsNamed(ingredients, UserOf(cred), Names) = {}
        /\ \E t1 \in DOMAIN tags, t2 \in DOMAIN tags, i \in DOMAIN ingredients :
               tags[t1].name = "a" /\ tags[t2].name = "b" /\ ingredients[i].name = "a"
        /\ \E s \in ScalarParts :
               /\ RecipeViewCreate(cred, s @@ [tags |-> <<ItemA, ItemB>>], Db).status = 201
               /\ RecipeViewCreate(cred, s @@ [ingredients |-> <<ItemA>>], Db).status = 201

\* the requests that write a recipe, each with the recipe it writes
RecipeWrites(cred, data) ==
    {[out |-> RecipeViewCreate(cred, data, Db), recipe |-> recipe_id_seq + 1]}
    \cup {[out |-> RecipeViewUpdate(cred, pk, data, partial, Db), recipe |-> pk] :
            pk \in RecipePks, partial \in BOOLEAN}

\* a recipe write the API accepts: the requester is known, the body is valid
\* and, for an update, the recipe is the requester's
Accepted(out) == out.status \notin {400, 401, 404}

\* C9: when an accepted recipe create or update names a tag the requester owns,
\* the request succeeds (200, 201), the recipe is linked to a row that was
\* there, and the rows of that owner and name are the same before and after.
\* The same for ingredients.
C9_ExistingRowReused ==
    \A cred \in Credentials, data \in RecipeBodies :
        \A w \in RecipeWrites(cred, data) :
            Accepted(w.out) =>
              /\ "tags" \in DOMAIN data =>
                   \A i \in 1..Len(data.tags) :
                      LET was == RowsNamed(tags, UserOf(cred), {data.tags[i].name})
                      IN was # {} =>
                           /\ w.out.status \in {200, 201}
                           /\ TagsOf(w.out.db, w.recipe) \cap was # {}
                           /\ RowsNamed(w.out.db.tags, UserOf(cred),
                                        {data.tags[i].name}) = was
              /\ "ingredients" \in DOMAIN data =>
                   \A i \in 1..Len(data.ingredients) :
                      LET was == RowsNamed(ingredients, UserOf(cred),
                                           {data.ingredients[i].name})
                      IN was # {} =>
                           /\ w.out.status \in {200, 201}
                           /\ IngredientsOf(w.out.db, w.recipe) \cap was # {}
                           /\ RowsNamed(w.out.db.ingredients, UserOf(cred),
                                        {data.ingredients[i].name}) = was

\* the rows of a table a user owns have names of their own
NamesUnique(table) ==
    \A t1 \in DOMAIN table, t2 \in DOMAIN table :
        (table[t1].user = table[t2].user /\ table[t1].name = table[t2].name) => t1 = t2

\* C9 where no owner has two rows of a name: get_or_create finds the one row.
\* Whatever the store, no request adds or removes a row of an owner and a name
\* the requester named and owned, even when it ends in an error.
C9_ReusedWhereNamesUnique ==
    \A cred \in Credentials, data \in RecipeBodies :
        \A w \in RecipeWrites(cred, data) :
            Accepted(w.out) =>
              /\ "tags" \in DOMAIN data =>
                   \A i \in 1..Len(data.tags) :
                      LET was == RowsNamed(tags, UserOf(cred), {data.tags[i].name})
                      IN was # {} =>
                           /\ RowsNamed(w.out.db.tags, UserOf(cred),
                                        {data.tags[i].name}) = was
                           /\ (NamesUnique(tags) /\ NamesUnique(ingredients)) =>
                                  /\ w.out.status \in {200, 201}
                                  /\ was \subseteq TagsOf(w.out.db, w.recipe)
              /\ "ingredients" \in DOMAIN data =>
                   \A i \in 1..Len(data.ingredients) :
                      LET was == RowsNamed(ingredients, UserOf(cred),
                                           {data.ingredients[i].name})
                      IN was # {} =>
                           /\ RowsNamed(w.out.db.ingredients, UserOf(cred),
                                        {data.ingredients[i].name}) = was
                           /\ (NamesUnique(tags) /\ NamesUnique(ingredients)) =>
                                  /\ w.out.status \in {200, 201}
                                  /\ was \subseteq IngredientsOf(w.out.db, w.recipe)

\* a user who owns one tag "a", linked to no recipe, creates a recipe with
\* `tags: [a, b]`, "b" new: the row of "a" is linked and one row is added
C9_ReuseReached ==
    \E cred \in Credentials, s \in ScalarParts :
        LET out == RecipeViewCreate(cred, s @@ [tags |-> <<ItemA, ItemB>>], Db)
            was == RowsNamed(tags, UserOf(cred), {"a"})
        IN /\ Authenticated(cred)
           /\ Cardinality(was) = 1
           /\ \A l \in recipe_tags : l[2] \notin was
           /\ RowsNamed(tags, UserOf(cred), {"b"}) = {}
           /\ out.status = 201
           /\ was \subseteq TagsOf(out.db, out.data[1])
           /\ Cardinality(NewRows(out.db.tags, tags)) = 1

\* C10: no user owns two tag rows of the same name, nor two ingredient rows of
\* the same name.
C10_NamesUniquePerOwner == NamesUnique(tags) /\ NamesUnique(ingredients)

\* C11: the recipe list with parameters that parse is answered 200 with
\* exactly the requester's recipes that have a tag of the `tags` list, when one
\* is given, and an ingredient of the `ingredients` list, when one is given;
\* an absent or empty parameter restricts nothing.
C11_FilterOrWithinAndBetween ==
    \A cred \in Credentials, query \in RecipeQueries :
        LET out == RecipeViewList(cred, query, Db)
            tag_ids == ParamsToInts(QueryGet(query, "tags"))
            ingredient_ids == ParamsToInts(QueryGet(query, "ingredients"))
        IN (Authenticated(cred) /\ ~tag_ids.raised /\ ~ingredient_ids.raised) =>
             /\ out.status = 200
             /\ Range(out.data) =
                  {r \in DOMAIN recipes :
                     /\ recipes[r].user = UserOf(cred)
                     /\ tag_ids.value # <<>> =>
                            TagsOf(Db, r) \cap Range(tag_ids.value) # {}
                     /\ ingredient_ids.value # <<>> =>
                            IngredientsOf(Db, r) \cap Range(ingredient_ids.value) # {}}

\* a user with two recipes, each with one of the tags 1 and 2, of which only
\* one has an ingredient: `tags=1,2` lists both, `tags=1,2&ingredients=1,2`
\* the one, `tags=1` one of them
C11_Witness ==
    \E cred \in Credentials, r1 \in DOMAIN recipes, r2 \in DOMAIN recipes :
        /\ Authenticated(cred) /\ r1 # r2
        /\ TagsOf(Db, r1) \cup TagsOf(Db, r2) = {1, 2}
        /\ Range(RecipeViewList(cred, [tags |-> <<"1", ",", "2">>], Db).data) = {r1, r2}
        /\ Range(RecipeViewList(cred, [tags |-> <<"1", ",", "2">>,
                                       ingredients |-> <<"1", ",", "2">>], Db).data) = {r1}
        /\ Cardinality(Range(RecipeViewList(cred, [tags |-> <<"1">>], Db).data)) = 1

\* C12: the recipe list holds each recipe once, in strictly descending order
\* of id.
C12_ListDistinctDescendingId ==
    \A cred \in Credentials, query \in RecipeQueries :
        LET out == RecipeViewList(cred, query, Db)
        IN out.status = 200 =>
             \A i \in 1..Len(out.data), j \in 1..Len(out.data) :
                 i < j => out.data[i] > out.data[j]

\* a user with two recipes, one of them with both tags of the filter and the
\* ingredient of the filter, listed by `tags=1,2&ingredients=1,2`
C12_Witness ==
    \E cred \in Credentials, r \in DOMAIN recipes :
        LET out == RecipeViewList(cred, [tags |-> <<"1", ",", "2">>,
                                         ingredients |-> <<"1", ",", "2">>], Db)
        IN /\ TagsOf(Db, r) = {1, 2} /\ IngredientsOf(Db, r) = {1}
           /\ out.status = 200
           /\ Len(out.data) = 2
           /\ r \in Range(out.data)

\* the two attribute lists a request gets, each with its table and link table
AttrLists2(cred, query) ==
    {[outs |-> TagViewList(cred, query, Db), table |-> tags, links |-> recipe_tags],
     [outs |-> IngredientViewList(cred, query, Db), table |-> ingredients,
      links |-> recipe_ingredients]}

\* the rows of a table a user owns, and those of them linked to a recipe
RowsOwned(table, user) == {t \in DOMAIN table : table[t].user = user}
RowsAssigned(table, links, user) ==
    {t \in RowsOwned(table, user) : \E l \in links : l[2] = t}

\* a sequence without repetition
EachOnce(seq) == \A i \in 1..Len(seq), j \in 1..Len(seq) : seq[i] = seq[j] => i = j

\* C13: the tag list and the ingredient list with `assigned_only=1` hold
\* exactly the requester's rows linked to a recipe, each once; with
\* `assigned_only` absent or 0 they hold every row of the requester, each once.
C13_AssignedOnly ==
    \A cred \in Credentials :
        Authenticated(cred) =>
          /\ \A l \in AttrLists2(cred, [assigned_only |-> <<"1">>]) :
               \A out \in l.outs :
                  /\ out.status = 200
                  /\ EachOnce(out.data)
                  /\ Range(out.data) = RowsAssigned(l.table, l.links, UserOf(cred))
          /\ \A query \in {NoQuery, [assigned_only |-> <<"0">>]} :
               \A l \in AttrLists2(cred, query) :
                 \A out \in l.outs :
                    /\ out.status = 200
                    /\ EachOnce(out.data)
                    /\ Range(out.data) = RowsOwned(l.table, UserOf(cred))

\* a user with a tag linked to two recipes, a tag linked to none, and an
\* ingredient linked to a recipe
C13_Witness ==
    \E cred \in Credentials, t1 \in DOMAIN tags, t2 \in DOMAIN tags :
        /\ Authenticated(cred)
        /\ tags[t1].user = UserOf(cred) /\ tags[t2].user = UserOf(cred)
        /\ Cardinality({l \in recipe_tags : l[2] = t1}) = 2
        /\ {l \in recipe_tags : l[2] = t2} = {}
        /\ RowsAssigned(ingredients, recipe_ingredients, UserOf(cred)) # {}
        /\ \A out \in TagViewList(cred, [assigned_only |-> <<"1">>], Db) :
               out.data = <<t1>>
        /\ \A out \in TagViewList(cred, NoQuery, Db) : Len(out.data) = 2

\* a name that sorts before another, of the names of the model
NameBefore(n1, n2) == n1 = "a" /\ n2 = "b"

\* C14: the tag list and the ingredient list hold rows of the requester only,
\* in descending order of name, with or without `assigned_only`.
C14_AttrListOwnDescendingName ==
    \A cred \in Credentials, query \in AttrQueries :
        \A l \in AttrLists2(cred, query) :
          \A out \in l.outs :
            out.status = 200 =>
              /\ Authenticated(cred)
              /\ \A i \in 1..Len(out.data) :
                     /\ out.data[i] \in DOMAIN l.table
                     /\ l.table[out.data[i]].user = UserOf(cred)
              /\ \A i \in 1..Len(out.data), j \in 1..Len(out.data) :
                     i < j => ~NameBefore(l.table[out.data[i]].name,
                                          l.table[out.data[j]].name)

\* a user who owns tags named "a" and "b", listed "b" first, and no
\* ingredient, while the other user owns one: the ingredient list is empty
C14_Witness ==
    \E cred \in Credentials, t1 \in DOMAIN tags, t2 \in DOMAIN tags,
       i \in DOMAIN ingredients :
        /\ Authenticated(cred)
        /\ tags[t1].user = UserOf(cred) /\ tags[t1].name = "a"
        /\ tags[t2].user = UserOf(cred) /\ tags[t2].name = "b"
        /\ ingredients[i].user # UserOf(cred)
        /\ \A out \in TagViewList(cred, NoQuery, Db) : out.data = <<t2, t1>>
        /\ \A out \in IngredientViewList(cred, NoQuery, Db) :
               out.status = 200 /\ out.data = <<>>

\* bodies of PATCH requests that carry some of the scalar fields
PatchBodies ==
    {[title |-> "t2"], [time_minutes |-> 20], [price |-> 7, link |-> "l2"],
     [description |-> "d2"], [description |-> "d2", tags |-> <<ItemA>>],
     [title |-> "t2", user |-> 2]}

\* C15: a successful PATCH of a recipe leaves every scalar field absent from
\* the body, the owner and the image as they were, gives the fields present
\* the values of the body, and leaves every other recipe as it was.
C15_PatchChangesOnlyPresent ==
    \A cred \in Credentials, pk \in RecipePks, data \in PatchBodies \cup RecipeBodies :
        LET out == RecipeViewUpdate(cred, pk, data, TRUE, Db)
        IN out.status = 200 =>
             /\ \A f \in (RecipeScalarFields \ DOMAIN data) \cup {"user", "image"} :
                    out.db.recipes[pk][f] = recipes[pk][f]
             /\ \A f \in RecipeScalarFields \cap DOMAIN data :
                    out.db.recipes[pk][f] = data[f]
             /\ \A r \in DOMAIN recipes \ {pk} :
                    r \in DOMAIN out.db.recipes /\ out.db.recipes[r] = recipes[r]

\* a recipe titled "t1" of 10 minutes whose owner patches the title alone, and
\* the description alone
C15_Witness ==
    \E cred \in Credentials, pk \in DOMAIN recipes :
        LET out == RecipeViewUpdate(cred, pk, [title |-> "t2"], TRUE, Db)
        IN /\ recipes[pk].title = "t1" /\ recipes[pk].time_minutes = 10
           /\ out.status = 200
           /\ out.db.recipes[pk].title = "t2"
           /\ out.db.recipes[pk].time_minutes = 10
           /\ RecipeViewUpdate(cred, pk, [description |-> "d2"], TRUE, Db).status = 200

\* bodies of create requests with every scalar field, some naming an owner
CreateBodies ==
    {[title |-> "t2", time_minutes |-> 20, price |-> 7, description |-> "d2",
      link |-> "l2"] @@ o : o \in OwnerParts \cup {<<>>}}

\* C16: a recipe created (201) by user u is stored with owner u, whatever the
\* body carries, with the scalar fields of the body; a valid body without
\* tags and ingredients is answered 201.
C16_CreatedWithRequesterAsOwner ==
    \A cred \in Credentials, data \in CreateBodies \cup RecipeBodies :
        LET out == RecipeViewCreate(cred, data, Db)
            new == out.data[1]
        IN /\ (Authenticated(cred) /\ data \in CreateBodies) => out.status = 201
           /\ out.status = 201 =>
                /\ Authenticated(cred)
                /\ new \notin DOMAIN recipes /\ new \in DOMAIN out.db.recipes
                /\ out.db.recipes[new].user = UserOf(cred)
                /\ \A f \in RecipeScalarFields \cap DOMAIN data :
                       out.db.recipes[new][f] = data[f]
                /\ \A r \in DOMAIN recipes :
                       r \in DOMAIN out.db.recipes /\ out.db.recipes[r] = recipes[r]

\* a user creates a recipe with a body that names the other user as owner,
\* while the other user owns a recipe
C16_Witness ==
    \E cred \in Credentials, data \in CreateBodies, r \in DOMAIN recipes :
        /\ Authenticated(cred)
        /\ "user" \in DOMAIN data /\ data.user # UserOf(cred)
        /\ recipes[r].user = data.user
        /\ RecipeViewCreate(cred, data, Db).status = 201

\* a registration body with every field, a well-formed email, a name and a
\* password of 5 characters or more
RegistrationComplete(data) ==
    /\ UserWritableFields \subseteq DOMAIN data
    /\ EmailFieldValid(data.email)
    /\ data.name # Blank
    /\ Len(data.password) >= 5

\* what a successful registration leaves: 201, one new user whose stored
\* password checks against the one sent, a body without the password
Registered(data, out) ==
    /\ out.status = 201
    /\ \E u \in DOMAIN out.db.users \ DOMAIN users :
           /\ DOMAIN out.db.users = DOMAIN users \cup {u}
           /\ out.db.users[u].password = MakePassword(data.password)
           /\ out.db.users[u].password.hash_of = data.password
           /\ out.db.users[u].name = data.name
    /\ \A u \in DOMAIN users : out.db.users[u] = users[u]
    /\ "password" \notin DOMAIN out.data[1]
    /\ out.data[1].name = data.name

\* C17: a registration with an email that is the email of no stored user and a
\* password of 5 characters or more is answered 201, stores a user whose
\* stored password checks against the plaintext, and answers without the
\* password.
C17_RegistrationSucceeds ==
    \A data \in RegistrationBodies :
        ( /\ RegistrationComplete(data)
          /\ \A u \in DOMAIN users : users[u].email # data.email ) =>
            Registered(data, CreateUserViewPost(data, Db))

\* C17 where the email as create_user stores it, with the domain in lower
\* case, is the email of no stored user either: the registration succeeds, and
\* the email stored and answered is the normalized one.
C17_SucceedsWhereNormalizedUnused ==
    \A data \in RegistrationBodies :
        ( /\ RegistrationComplete(data)
          /\ \A u \in DOMAIN users :
                users[u].email \notin {data.email, NormalizeEmail(data.email)} ) =>
            LET out == CreateUserViewPost(data, Db)
            IN /\ Registered(data, out)
               /\ out.data[1].email = NormalizeEmail(data.email)
               /\ \E u \in DOMAIN out.db.users \ DOMAIN users :
                      out.db.users[u].email = NormalizeEmail(data.email)

\* a new email with capitals in the domain is registered, and stored in lower
\* case
C17_RegisteredReached ==
    LET data == [email |-> EmailNUpper, password |-> Word2, name |-> "n1"]
    IN /\ \A u \in DOMAIN users : users[u].email \notin {EmailN, EmailNUpper}
       /\ CreateUserViewPost(data, Db).status = 201
       /\ CreateUserViewPost(data, Db).data[1].email = EmailN

\* C18: a registration with the email of a stored user is answered 400 and
\* leaves the store as it is; no two stored users have the same email.
C18_DuplicateEmailIs400 ==
    /\ \A data \in RegistrationBodies :
           ("email" \in DOMAIN data
               /\ \E u \in DOMAIN users : users[u].email = data.email) =>
               CreateUserViewPost(data, Db) = Outcome(Db, 400, None)
    /\ \A u1 \in DOMAIN users, u2 \in DOMAIN users :
           users[u1].email = users[u2].email => u1 = u2

\* a user registered through the API, whose email is sent again with a valid
\* password and name
C18_Witness ==
    \E u \in DOMAIN users \ {1, 2} :
        LET data == [email |-> users[u].email, password |-> Pass1, name |-> "n1"]
        IN /\ data \in RegistrationBodies
           /\ RegistrationComplete(data)
           /\ CreateUserViewPost(data, Db).status = 400

\* C19: a registration with a password of fewer than 5 characters is answered
\* 400 and leaves the store as it is.
C19_ShortPasswordIs400 ==
    \A data \in RegistrationBodies :
        ("password" \in DOMAIN data /\ Len(data.password) < 5) =>
            CreateUserViewPost(data, Db) = Outcome(Db, 400, None)

\* a registration refused for its password of 2 characters alone: with one of
\* 5 characters the same email and name are registered
C19_Witness ==
    \E data \in RegistrationBodies :
        /\ UserWritableFields \subseteq DOMAIN data
        /\ data.password = ShortPassword
        /\ CreateUserViewPost(data, Db).status = 400
        /\ CreateUserViewPost([data EXCEPT !.password = Pass1], Db).status = 201

\* the stored users a token body matches: the email is theirs and the
\* password is the one their stored password was made of
Matching(data) ==
    {u \in DOMAIN users :
        /\ {"email", "password"} \subseteq DOMAIN data
        /\ users[u].email = data.email
        /\ users[u].password = MakePassword(data.password)}

\* C20: a token request is answered 200 with a token only when email and
\* password match a stored user, and the token is that user's; with a wrong
\* password, an unknown email or a blank password it is answered 400 without a
\* token and nothing is stored; with matching email and password it is
\* answered 200.
C20_TokenOnlyForMatchingCredentials ==
    \A data \in TokenBodies :
        LET out == CreateTokenViewPost(data, Db)
        IN /\ out.status \in {200, 400}
           /\ out.status = 200 =>
                /\ Matching(data) # {}
                /\ out.data[1].token \in DOMAIN out.db.tokens
                /\ out.db.tokens[out.data[1].token] \in Matching(data)
                /\ out.db.users = users
           /\ Matching(data) = {} => out = Outcome(Db, 400, None)
           /\ ("password" \in DOMAIN data /\ data.password = BlankPassword) =>
                out = Outcome(Db, 400, None)
           /\ Matching(data) # {} => out.status = 200

\* a user registered through the API and without a token yet gets one with
\* the right password, and 400 with the password of another user
C20_Witness ==
    \E u \in DOMAIN users \ {1, 2} :
        LET good == [email |-> users[u].email, password |-> Word2]
            bad == [email |-> users[u].email, password |-> Pass1]
        IN /\ \A k \in DOMAIN tokens : tokens[k] # u
           /\ users[1].password = MakePassword(Pass1)
           /\ CreateTokenViewPost(good, Db).status = 200
           /\ CreateTokenViewPost(good, Db).db.tokens # tokens
           /\ CreateTokenViewPost(bad, Db).status = 400

\* bodies of profile updates that carry a password, alone or with the email
\* or the name
PasswordPatchBodies ==
    {[password |-> p] @@ rest :
        p \in {Pass1, Word2, ShortPassword, BlankPassword},
        rest \in {<<>>, [email |-> EmailN], [email |-> EmailNUpper],
                  [email |-> EmailA], [name |-> "n2"],
                  [email |-> EmailN, name |-> "n2"]}}
\* the plaintexts a stored password checks against
PlaintextsOf(encoded) == {p \in {Pass1, Word2} : CheckPassword(p, encoded)}

\* C21: after a successful PATCH or PUT of /api/user/me/ that carries a new
\* password, the stored password is the hash made of the new plaintext, it
\* checks against the new plaintext and against no previous one, a token
\* request with the user's email and the new password is answered 200 with a
\* token of that user, and one with a previous password is answered 400.
C21_PasswordChangeTakesEffect ==
    \A cred \in UserCredentials, data \in PasswordPatchBodies, partial \in BOOLEAN :
        LET out == ManageUserViewUpdate(cred, data, partial, Db)
        IN (out.status = 200 /\ data.password \notin PlaintextsOf(users[UserOf(cred)].password)) =>
             LET u == UserOf(cred)
                 stored == out.db.users[u]
                 new == CreateTokenViewPost(
                            [email |-> stored.email, password |-> data.password], out.db)
             IN /\ stored.password = MakePassword(data.password)
                /\ CheckPassword(data.password, stored.password)
                /\ new.status = 200 /\ new.db.tokens[new.data[1].token] = u
                /\ \A old \in PlaintextsOf(users[u].password) :
                       /\ ~CheckPassword(old, stored.password)
                       /\ CreateTokenViewPost(
                              [email |-> stored.email, password |-> old], out.db)
                            = Outcome(out.db, 400, None)

\* a user whose password was changed from the one of registration: the token
\* request with the new password succeeds, the one with the old one fails
C21_Witness ==
    \E u \in DOMAIN users :
        /\ users[u].password = MakePassword(Word2)
        /\ CreateTokenViewPost([email |-> users[u].email, password |-> Word2], Db).status = 200
        /\ CreateTokenViewPost([email |-> users[u].email, password |-> Pass1], Db).status = 400
        /\ \E cred \in UserCredentials :
               /\ Authenticated(cred) /\ UserOf(cred) = u
               /\ ManageUserViewUpdate(cred, [password |-> Pass1], TRUE, Db).status = 200

\* C22: deleting a tag or an ingredient deletes no recipe.  After a 204 the
\* recipe table is as it was (every recipe, its scalar fields, its owner), the
\* table of the other kind and its links are as they were, the deleted row is
\* gone from its table and the link table has lost the links to that row and
\* no other.  A delete that is not answered 204 changes nothing.
C22_AttrDeleteKeepsRecipes ==
    /\ \A cred \in Credentials, pk \in TagPks :
           LET out == TagViewDestroy(cred, pk, Db)
           IN IF out.status = 204
              THEN /\ out.db.recipes = recipes
                   /\ out.db.recipe_tags = {l \in recipe_tags : l[2] # pk}
                   /\ DOMAIN out.db.tags = DOMAIN tags \ {pk}
                   /\ \A t \in DOMAIN out.db.tags : out.db.tags[t] = tags[t]
                   /\ out.db.ingredients = ingredients
                   /\ out.db.recipe_ingredients = recipe_ingredients
              ELSE out.db = Db
    /\ \A cred \in Credentials, pk \in IngredientPks :
           LET out == IngredientViewDestroy(cred, pk, Db)
           IN IF out.status = 204
              THEN /\ out.db.recipes = recipes
                   /\ out.db.recipe_ingredients = {l \in recipe_ingredients : l[2] # pk}
                   /\ DOMAIN out.db.ingredients = DOMAIN ingredients \ {pk}
                   /\ \A i \in DOMAIN out.db.ingredients :
                          out.db.ingredients[i] = ingredients[i]
                   /\ out.db.tags = tags
                   /\ out.db.recipe_tags = recipe_tags
              ELSE out.db = Db

\* a recipe linked to two tags and an ingredient, whose owner deletes one of
\* the tags
C22_Witness ==
    \E cred \in Credentials, r \in DOMAIN recipes, pk \in DOMAIN tags :
        /\ Cardinality(TagsOf(Db, r)) = 2 /\ pk \in TagsOf(Db, r)
        /\ IngredientsOf(Db, r) # {}
        /\ TagViewDestroy(cred, pk, Db).status = 204

\* the ids the recipe table handed out whose row is deleted
DeletedRecipes == (1..recipe_id_seq) \ DOMAIN recipes

\* a DELETE of the requester's own recipe is answered 204 and removes the row;
\* every id without a row, deleted or never handed out, is answered 404 by
\* retrieve, update and delete with the store unchanged, and is in no list
C23_GoneIs404 ==
    \A cred \in Credentials :
        Authenticated(cred) =>
          /\ \A pk \in DOMAIN recipes :
                 recipes[pk].user = UserOf(cred) =>
                    LET out == RecipeViewDestroy(cred, pk, Db)
                    IN /\ out.status = 204
                       /\ pk \notin DOMAIN out.db.recipes
                       /\ out.db.recipe_id_seq = recipe_id_seq
                       /\ TagsOf(out.db, pk) = {} /\ IngredientsOf(out.db, pk) = {}
          /\ \A pk \in RecipePks \ DOMAIN recipes :
                 /\ RecipeViewDestroy(cred, pk, Db) = Outcome(Db, 404, None)
                 /\ RecipeViewRetrieve(cred, pk, Db) = Outcome(Db, 404, None)
                 /\ \A data \in RecipeBodies, partial \in BOOLEAN :
                        RecipeViewUpdate(cred, pk, data, partial, Db)
                            = Outcome(Db, 404, None)
                 /\ \A query \in RecipeQueries :
                        LET out == RecipeViewList(cred, query, Db)
                        IN out.status = 200 => pk \notin Range(out.data)

\* no request brings a deleted id back: the id of a new row is a new id
C23_GoneStaysGone ==
    /\ recipe_id_seq' >= recipe_id_seq
    /\ \A pk \in DeletedRecipes : pk \in DeletedRecipes'

C24_TimeMinutesNonNegative ==
    \A r \in DOMAIN recipes : recipes[r].time_minutes >= 0

\* a transaction whose statements are done but for the last one and the commit
ReadyToCommit(w) ==
    Running(w) /\ Head(transactions[w].steps).op \in {"save", "return"}

\* the rows two sets of writes both insert under one owner and one name
SameRowTwice(rows1, rows2) ==
    {pair \in (DOMAIN rows1) \X (DOMAIN rows2) : rows1[pair[1]] = rows2[pair[2]]}

\* C25: two requests of one user handled at the same time, both naming a tag
\* (or ingredient) name the user does not own yet, can both miss the lookup
\* and both insert.  Whenever two transactions are about to commit and each
\* has inserted a row of the same owner and name, both commits go through and
\* the store then holds two distinct rows of that owner and name, each linked
\* to the recipe of its request: nothing makes the second request find the
\* row of the first.
C25_ConcurrentGetOrCreateInsertsTwice ==
    \A w1 \in Workers, w2 \in Workers :
        (w1 # w2 /\ ReadyToCommit(w1) /\ ReadyToCommit(w2)) =>
            LET t1 == transactions[w1]
                t2 == transactions[w2]
                first == TxnCommitOutcome(t1, Db)
                both == TxnCommitOutcome(t2, first.db)
            IN /\ \A pair \in SameRowTwice(t1.writes.tags, t2.writes.tags) :
                      /\ ~first.raised /\ ~both.raised
                      /\ pair[1] # pair[2]
                      /\ {pair[1], pair[2]} \subseteq DOMAIN both.db.tags
                      /\ both.db.tags[pair[1]] = both.db.tags[pair[2]]
                      /\ <<t1.instance, pair[1]>> \in both.db.recipe_tags
                      /\ <<t2.instance, pair[2]>> \in both.db.recipe_tags
               /\ \A pair \in SameRowTwice(t1.writes.ingredients,
                                            t2.writes.ingredients) :
                      /\ ~first.raised /\ ~both.raised
                      /\ pair[1] # pair[2]
                      /\ {pair[1], pair[2]} \subseteq DOMAIN both.db.ingredients
                      /\ both.db.ingredients[pair[1]] = both.db.ingredients[pair[2]]
                      /\ <<t1.instance, pair[1]>> \in both.db.recipe_ingredients
                      /\ <<t2.instance, pair[2]>> \in both.db.recipe_ingredients

\* both requests are answered, and the tag table holds two rows of one owner
\* and one name, each linked to a recipe
C25_Witness ==
    /\ \A w \in Workers : ~Running(w)
    /\ \E x1 \in DOMAIN tags, x2 \in DOMAIN tags :
           /\ x1 # x2 /\ tags[x1] = tags[x2]
           /\ \E r1 \in DOMAIN recipes, r2 \in DOMAIN recipes :
                  <<r1, x1>> \in recipe_tags /\ <<r2, x2>> \in recipe_tags

\* the rows of a table named n that the user does not own
RowsOfOthers(table, user, n) ==
    {t \in DOMAIN table : table[t].user # user /\ table[t].name = n}

\* C26: in every reachable state every tag and every ingredient linked to a
\* recipe is a stored row with the owner of that recipe.  When a create or an
\* update that succeeds names a tag (or ingredient) that only other users own,
\* a new row of that name owned by the requester is stored and linked, and no
\* row of another user is linked to the recipe.
C26_LinkedRowsOwnedByRecipeOwner ==
    /\ \A l \in recipe_tags :
           /\ l[1] \in DOMAIN recipes /\ l[2] \in DOMAIN tags
           /\ tags[l[2]].user = recipes[l[1]].user
    /\ \A l \in recipe_ingredients :
           /\ l[1] \in DOMAIN recipes /\ l[2] \in DOMAIN ingredients
           /\ ingredients[l[2]].user = recipes[l[1]].user
    /\ \A cred \in Credentials, data \in RecipeBodies :
         \A w \in RecipeWrites(cred, data) :
           w.out.status \in {200, 201} =>
             LET u == UserOf(cred)
                 d == w.out.db
             IN /\ "tags" \in DOMAIN data =>
                     /\ \A t \in TagsOf(d, w.recipe) : d.tags[t].user = u
                     /\ \A n \in NamesOf(data.tags) :
                            ( /\ RowsNamed(tags, u, {n}) = {}
                              /\ RowsOfOthers(tags, u, n) # {} ) =>
                                \E t \in NewRows(d.tags, tags) :
                                    /\ d.tags[t] = [name |-> n, user |-> u]
                                    /\ t \in TagsOf(d, w.recipe)
                /\ "ingredients" \in DOMAIN data =>
                     /\ \A i \in IngredientsOf(d, w.recipe) : d.ingredients[i].user = u
                     /\ \A n \in NamesOf(data.ingredients) :
                            ( /\ RowsNamed(ingredients, u, {n}) = {}
                              /\ RowsOfOthers(ingredients, u, n) # {} ) =>
                                \E i \in NewRows(d.ingredients, ingredients) :
                                    /\ d.ingredients[i] = [name |-> n, user |-> u]
                                    /\ i \in IngredientsOf(d, w.recipe)

\* two users each own a tag of the same name, each linked to a recipe of its
\* owner
C26_Witness ==
    \E t1 \in DOMAIN tags, t2 \in DOMAIN tags :
        /\ tags[t1].name = tags[t2].name /\ tags[t1].user # tags[t2].user
        /\ \E r1 \in DOMAIN recipes, r2 \in DOMAIN recipes :
               /\ <<r1, t1>> \in recipe_tags /\ <<r2, t2>> \in recipe_tags
               /\ recipes[r1].user = tags[t1].user
               /\ recipes[r2].user = tags[t2].user

TagsLinkedBy(t) == {l[2] : l \in t.writes.added_tags}
TagNamesLinkedBy(t) == {View(t.writes, Db).tags[x].name : x \in TagsLinkedBy(t)}

\* two PATCH requests with a non-empty `tags` list for the same recipe, both
\* with all their statements done and neither committed
ConcurrentTagUpdates(w1, w2) ==
    /\ w1 # w2 /\ ReadyToCommit(w1) /\ ReadyToCommit(w2)
    /\ Head(transactions[w1].steps).op = "save"
    /\ Head(transactions[w2].steps).op = "save"
    /\ transactions[w1].instance = transactions[w2].instance
    /\ TagsLinkedBy(transactions[w1]) # {} /\ TagsLinkedBy(transactions[w2]) # {}

\* the store after w1 commits and then w2 commits
AfterBothCommit(w1, w2) ==
    TxnCommitOutcome(transactions[w2],
                     TxnCommitOutcome(transactions[w1], Db).db).db

\* C28: when two updates that each carry a non-empty `tags` list for the same
\* recipe are handled at the same time, the names of the tags the recipe is
\* linked to in the end are the names one of the two requests asked for.
C28_ConcurrentTagUpdatesAsOneAfterTheOther ==
    \A w1 \in Workers, w2 \in Workers :
        ConcurrentTagUpdates(w1, w2) =>
            LET final == AfterBothCommit(w1, w2)
                r == transactions[w1].instance
            IN {final.tags[x].name : x \in TagsOf(final, r)}
                   \in {TagNamesLinkedBy(transactions[w1]),
                        TagNamesLinkedBy(transactions[w2])}

\* what holds instead: the recipe ends with the tags of the request that
\* commits last and, of the other request, the ones that request added, so
\* with a non-empty set within the union of the two
C28_FinalLinksWithinUnion ==
    \A w1 \in Workers, w2 \in Workers :
        ConcurrentTagUpdates(w1, w2) =>
            LET final == AfterBothCommit(w1, w2)
                r == transactions[w1].instance
            IN /\ TagsLinkedBy(transactions[w2]) \subseteq TagsOf(final, r)
               /\ TagsOf(final, r) \subseteq
                      TagsLinkedBy(transactions[w1]) \cup TagsLinkedBy(transactions[w2])

RepeatedLists == {<<ItemA, ItemA>>, <<ItemA, ItemB, ItemA>>, <<ItemB, ItemB, ItemB>>,
                  <<ItemB, ItemA, ItemA, ItemB>>}
RECURSIVE Dedup(_)
Dedup(list) ==
    IF list = <<>> THEN <<>>
    ELSE LET rest == Dedup(SubSeq(list, 1, Len(list) - 1))
         IN IF list[Len(list)] \in Range(rest) THEN rest
            ELSE Append(rest, list[Len(list)])

\* C30: a recipe create or update whose `tags` (or `ingredients`) list repeats
\* a name has the outcome, answer and store, of the same request with the
\* repeats removed; when it succeeds, at most one row of the requester is
\* created for each name and the recipe holds exactly one link to a row of
\* each name.
C30_RepeatedNamesAsOnce ==
    \A cred \in Credentials, s \in ScalarParts, l \in RepeatedLists :
        /\ \A w \in RecipeWrites(cred, s @@ [tags |-> l]) :
               w.out.status \in {200, 201} =>
                  \A n \in NamesOf(l) :
                      /\ Cardinality({t \in NewRows(w.out.db.tags, tags) :
                                         w.out.db.tags[t].name = n}) <= 1
                      /\ Cardinality({t \in TagsOf(w.out.db, w.recipe) :
                                         w.out.db.tags[t].name = n}) = 1
        /\ \A w \in RecipeWrites(cred, s @@ [ingredients |-> l]) :
               w.out.status \in {200, 201} =>
                  \A n \in NamesOf(l) :
                      /\ Cardinality({i \in NewRows(w.out.db.ingredients, ingredients) :
                                         w.out.db.ingredients[i].name = n}) <= 1
                      /\ Cardinality({i \in IngredientsOf(w.out.db, w.recipe) :
                                         w.out.db.ingredients[i].name = n}) = 1
        /\ RecipeWrites(cred, s @@ [tags |-> l])
               = RecipeWrites(cred, s @@ [tags |-> Dedup(l)])
        /\ RecipeWrites(cred, s @@ [ingredients |-> l])
               = RecipeWrites(cred, s @@ [ingredients |-> Dedup(l)])

\* a user who owns a recipe and no tag named "a" creates a recipe with the
\* tag "a" named twice and patches the own recipe with an ingredient named
\* twice
C30_Witness ==
    \E cred \in Credentials, pk \in DOMAIN recipes :
        /\ Authenticated(cred) /\ recipes[pk].user = UserOf(cred)
        /\ RowsNamed(tags, UserOf(cred), {"a"}) = {}
        /\ RecipeViewCreate(cred, [title |-> "t1", time_minutes |-> 10, price |-> 5,
                                   tags |-> <<ItemA, ItemA>>], Db).status = 201
        /\ RecipeViewUpdate(cred, pk, [ingredients |-> <<ItemA, ItemA>>], TRUE, Db).status
               = 200

====
